---- MODULE Spec2Model ----
(***************************************************************************)
(* Coordination primitives of common_util.ts: Mutex, JobManager and        *)
(* CacheOnSuccess, modelled at the granularity of the event loop: one      *)
(* action per synchronous run of code (a call, a promise continuation, a   *)
(* setImmediate callback, the settling of a job's promise).                *)
(***************************************************************************)
EXTENDS Integers, Sequences, FiniteSets, TLC

\* Number of runExclusive calls made on the Mutex in one run.
MaxJobs == 3

Jobs == 1..MaxJobs

\* Number of jobs offered to the JobManager in one run.
MaxOffers == 4

\* Number of getOrThrow calls made on the CacheOnSuccess cell in one run.
MaxGets == 4

Offers == 1..MaxOffers

Gets == 1..MaxGets

\* Number of Ebuild.generate calls made in one run.
MaxGenerates == 2

Generates == 1..MaxGenerates

\* Number of data chunks the process writes in one run of exec.
MaxChunks == 2

\* Modification times of artifacts range over the days 1..MaxDay.
MaxDay == 4

\* Number of withTimeout calls made in one run.
MaxTimeouts == 2

Timeouts == 1..MaxTimeouts

\* Number of triggers that reach CppCodeCompletion.generate in one run.
MaxTriggers == 3

Triggers == 1..MaxTriggers

\* Number of ensurePackage calls made on one CipdRepository in one run.
MaxEnsures == 3

Ensures == 1..MaxEnsures

\* Settled or unsettled state of a promise.  A job with id j returns the
\* value j or throws the error j, so that outcomes identify their job.
Pending == [kind |-> "pending", val |-> 0]
Fulfilled(v) == [kind |-> "ok", val |-> v]
Rejected(e) == [kind |-> "err", val |-> e]
Null == [kind |-> "null", val |-> 0]

\* Promise resolve/reject functions: only the first call has an effect.
Settle(p, outcome) == IF p = Pending THEN outcome ELSE p

VARIABLES
  \* ---- Mutex ----
  mQueue,      \* Mutex.queue: job ids of the queued JobQueueItems
  mRunning,    \* Mutex.running
  mCalls,      \* number of runExclusive calls made so far (ids 1..mCalls)
  mPhase,      \* position of each job: new, queued, started, read, settled, done
  mLocal,      \* value of the shared counter read by the job body
  mOutcome,    \* outcome of the promise returned by task.job()
  mPromise,    \* the promise returned by runExclusive
  mImmediate,  \* pending setImmediate callbacks, in scheduling order
  counter,     \* the shared counter the job bodies increment
  mStartOrder, \* history: job ids in the order their bodies started
  mSeen,       \* history: value of counter when the body started
  mWaited,     \* history: jobs whose own runExclusive call did not start them
  mInner       \* the job a job body passed to runExclusive of the same Mutex
               \* and whose promise it awaits; 0 when it made no such call

mvars == <<mQueue, mRunning, mCalls, mPhase, mLocal, mOutcome, mPromise,
           mImmediate, counter, mStartOrder, mSeen, mWaited, mInner>>

VARIABLES
  \* ---- JobManager ----
  jTasks,      \* JobManager.tasks: job ids of the queued Tasks
  jRunning,    \* JobManager.running
  jOffers,     \* number of offer calls made so far (ids 1..jOffers)
  jPhase,      \* position of each job: new, queued, cancelled, running,
               \* returned (job settled), ran (Task.run settled), done
  jOutcome,    \* outcome of the promise returned by task.job()
  jPromise,    \* the promise returned by offer
  jRuns,       \* history: number of times the job body was started
  jDuring      \* history: the job that was executing when this one was offered

jvars == <<jTasks, jRunning, jOffers, jPhase, jOutcome, jPromise, jRuns,
           jDuring>>

VARIABLES
  \* ---- CacheOnSuccess ----
  cValue,      \* CacheOnSuccess.value
  cPromise,    \* CacheOnSuccess.promise: id of the attempt it holds, 0 if undefined
  cCalls,      \* number of getOrThrow calls made so far (ids 1..cCalls)
  cAttempts,   \* number of invocations of the underlying job (ids 1..cAttempts)
  cAttempt,    \* state of the promise each invocation returned
  cAwait,      \* the attempt a call awaits inside its try block, 0 if none
  cResult,     \* what each getOrThrow call returned or threw
  cSucceeded,  \* history: the first attempt that succeeded, 0 if none yet
  cLate,       \* history: calls made after an attempt had succeeded
  cJoined,     \* history: the unresolved attempt a call started or found, 0 if none
  cSequential  \* history: every call so far was made after the earlier ones settled

cvars == <<cValue, cPromise, cCalls, cAttempts, cAttempt, cAwait, cResult,
           cSucceeded, cLate, cJoined, cSequential>>

VARIABLES
  \* ---- Ebuild (compilation database generation) ----
  gMap,        \* Ebuild.globalMutexMap: its keys in insertion order; the
               \* position of a key identifies the Mutex stored under it
  gQueue,      \* Mutex.queue of each Mutex instance
  gRunning,    \* Mutex.running of each Mutex instance
  gCalls,      \* number of generate calls made so far (ids 1..gCalls)
  gArgs,       \* board, package and source root of the Ebuild of each call
  gMutex,      \* the Mutex instance this.mutex() returned to each call
  gPhase,      \* position of each call: new, queued, removeCache, runCompgen,
               \* artifactPath, settled, done
  gOutcome,    \* outcome of the job passed to runExclusive
  gPromise,    \* the promise returned by generate
  gImmediate   \* pending setImmediate callbacks, in scheduling order

gvars == <<gMap, gQueue, gRunning, gCalls, gArgs, gMutex, gPhase, gOutcome,
           gPromise, gImmediate>>

VARIABLES
  \* ---- exec (one call of realExec) ----
  eOpts,       \* the options of the call
  eToken,      \* cancellationToken.isCancellationRequested
  eProc,       \* the child process: none (exec not called), running,
               \* failed (spawn failed, 'error' not yet emitted), errored,
               \* exited ('close' not yet emitted), closed
  ePid,        \* command.pid is defined: the process was spawned
  eExitCode,   \* command.exitCode, the status passed to 'close'
  eKilled,     \* command.kill() has been called
  eTreeKill,   \* the treeKill call: none, pending (callback due), done,
               \* failed (the callback got an error)
  eStdout,     \* the local `stdout`
  eStderr,     \* the local `stderr`
  eLastChar,   \* the local `lastChar`
  eLog,        \* what was passed to logger.append, in order
  ePromise,    \* the promise returned by exec
  eArrived,    \* history: the data chunks in arrival order
  eCancelAt,   \* history: eProc when cancel() ran ("pre": inside exec)
  eChild,      \* a process spawned by the command: none, running, dead
  eTreeSignalled, \* the processes treeKill has sent its signal to
  eChildAtCancel  \* history: eChild was running when cancel() ran

evars == <<eOpts, eToken, eProc, ePid, eExitCode, eKilled, eTreeKill, eStdout,
           eStderr, eLastChar, eLog, ePromise, eArrived, eCancelAt, eChild,
           eTreeSignalled, eChildAtCancel>>

VARIABLES
  \* ---- the job of Ebuild.generate, step by step ----
  bPhase,      \* idle, removeCache, ebuild9999, compgen, artifactPath,
               \* returned, thrown
  bDir,        \* the `dir` of the running loop over buildDirs()
  bFs,         \* the `fs` of the running loop over the two roots
  bFile,       \* the cache file the pending fs.rm call removes
  bHasRemoved, \* removeCache: the local `hasRemovedCache`
  bFirstError, \* removeCache: the local `firstError`
  bDirFirst,   \* history: the first error caught for the directory
  bDirsRemoved, \* history: the directories for which a try block of
               \* removeCache ran to its end
  bBlockFailed, \* history: a try block of removeCache was left by an error
  bCommands,   \* history: the commands run in the chroot
  bCandidates, \* artifactPath: the local `candidates`
  bSearched,   \* history: artifactPath() looked for a file
  bResult      \* what the job returned or threw

bvars == <<bPhase, bDir, bFs, bFile, bHasRemoved, bFirstError, bDirFirst,
           bDirsRemoved, bBlockFailed, bCommands, bCandidates, bSearched,
           bResult>>

VARIABLES
  \* ---- withTimeout ----
  wCalls,      \* number of withTimeout calls made so far (ids 1..wCalls)
  wOp,         \* the operation `f` of each call
  wTimer,      \* the timer of each call: none, armed, fired
  wRace,       \* the promise each call returned
  wMicrotasks, \* pending promise reactions of the races, in order
  wFirst       \* history: what happened first, the operation settling or
               \* the timer firing

wvars == <<wCalls, wOp, wTimer, wRace, wMicrotasks, wFirst>>

VARIABLES
  \* ---- CppCodeCompletion ----
  xTasks,      \* jobManager.tasks: trigger ids of the queued Tasks
  xRunning,    \* jobManager.running
  xTriggers,   \* number of triggers that reached generate() (ids 1..xTriggers)
  xDoc,        \* the document of each trigger
  xPhase,      \* position of each trigger's job: new, queued, cancelled,
               \* generating (generator.generate pending), restarting
               \* (clangd.restart pending), returned, ran, done
  xOutcome,    \* outcome of the promise returned by the job
  xPromise,    \* the promise returned by jobManager.offer
  xStatus,     \* status of the task 'C++ xrefs generation': none (no such
               \* task yet), RUNNING, OK, ERROR
  xIgnored,    \* ignoredErrors
  xShown,      \* error kinds of the error messages on display
  xGenerated,  \* history: triggers in the order generator.generate was called
  xLastEnd     \* history: how the job that ended last ended: none, ok,
               \* error, ignored, crashed

xvars == <<xTasks, xRunning, xTriggers, xDoc, xPhase, xOutcome, xPromise,
           xStatus, xIgnored, xShown, xGenerated, xLastEnd>>

VARIABLES
  \* ---- CipdRepository ----
  iQueue,      \* cipdMutex.queue: call ids of the queued jobs
  iRunning,    \* cipdMutex.running
  iCalls,      \* number of ensurePackage calls made so far (ids 1..iCalls)
  iPhase,      \* position of each call: new, queued, init (cipd init
               \* running), install (cipd install running), settled, done
  iCipd,       \* the directory .cipd exists in installDir
  iOutcome,    \* outcome of the job passed to runExclusive
  iPromise,    \* the promise returned by ensurePackage
  iImmediate,  \* pending setImmediate callbacks, in scheduling order
  iLog         \* history: the cipd commands in the order they were started

ivars == <<iQueue, iRunning, iCalls, iPhase, iCipd, iOutcome, iPromise,
           iImmediate, iLog>>

vars == <<mvars, jvars, cvars, gvars, evars, bvars, wvars, xvars, ivars>>

(***************************************************************************)
(* Mutex                                                                   *)
(***************************************************************************)

\* handle() returns early when a job is running or nothing is queued.
MutexHandleSkipsNoRunningCheck(running, queue) == Len(queue) = 0
MutexHandleSkips(running, queue) == running \/ Len(queue) = 0

\* The entry handle() takes from the queue: queue.shift().
MutexTakeLast(queue) ==
  [task |-> queue[Len(queue)], rest |-> SubSeq(queue, 1, Len(queue) - 1)]
MutexTake(queue) == [task |-> Head(queue), rest |-> Tail(queue)]

\* The synchronous part of handle(): up to the call of task.job().
\* started = 0 when handle() returned early.
MutexHandle(running, queue) ==
  IF MutexHandleSkips(running, queue)
  THEN [running |-> running, queue |-> queue, started |-> 0]
  ELSE [running |-> TRUE, queue |-> MutexTake(queue).rest,
        started |-> MutexTake(queue).task]

\* The `void this.handle()` of the finally block.
MutexHandleAgainOmitted(running, queue) ==
  [running |-> running, queue |-> queue, started |-> 0]
MutexHandleAgain(running, queue) == MutexHandle(running, queue)

\* Value of this.running after the job settled (the finally block).
MutexRunningAfterJobNoFinally(outcome) == outcome.kind = "err"
MutexRunningAfterJob(outcome) == FALSE

\* The queue entry a setImmediate callback settles: the captured task.
MutexSettledTaskNext(entry) == (entry.task % MaxJobs) + 1
MutexSettledTask(entry) == entry.task

\* Effect of handle() on the job positions and the history variables.
MutexStart(h, phase) ==
  /\ mPhase' = [j \in Jobs |-> IF j = h.started THEN "started" ELSE phase[j]]
  /\ mStartOrder' = IF h.started = 0 THEN mStartOrder
                    ELSE Append(mStartOrder, h.started)
  /\ mSeen' = [j \in Jobs |-> IF j = h.started THEN counter ELSE mSeen[j]]

\* runExclusive(job): push the entry, then handle() synchronously.
RunExclusive ==
  /\ mCalls < MaxJobs
  /\ LET j == mCalls + 1
         h == MutexHandle(mRunning, Append(mQueue, j))
     IN /\ mCalls' = j
        /\ mQueue' = h.queue
        /\ mRunning' = h.running
        /\ MutexStart(h, [mPhase EXCEPT ![j] = "queued"])
        /\ mWaited' = IF h.started = j THEN mWaited ELSE mWaited \cup {j}
  /\ UNCHANGED <<mLocal, mOutcome, mPromise, mImmediate, counter, mInner>>

\* The job body awaits the promise of a runExclusive call it made.
MutexJobBlocked(j) == mInner[j] # 0 /\ mPromise[mInner[j]] = Pending

\* The job body calls runExclusive(inner) on the Mutex it runs under and
\* awaits the returned promise.
MutexJobReenter(j) ==
  /\ mPhase[j] = "started"
  /\ mInner[j] = 0
  /\ mCalls < MaxJobs
  /\ LET k == mCalls + 1
         h == MutexHandle(mRunning, Append(mQueue, k))
     IN /\ mCalls' = k
        /\ mInner' = [mInner EXCEPT ![j] = k]
        /\ mQueue' = h.queue
        /\ mRunning' = h.running
        /\ MutexStart(h, [mPhase EXCEPT ![k] = "queued"])
        /\ mWaited' = IF h.started = k THEN mWaited ELSE mWaited \cup {k}
  /\ UNCHANGED <<mLocal, mOutcome, mPromise, mImmediate, counter>>

\* Job body, first half of the read-modify-write: read the counter.
MutexJobRead(j) ==
  /\ mPhase[j] = "started"
  /\ ~MutexJobBlocked(j)
  /\ mLocal' = [mLocal EXCEPT ![j] = counter]
  /\ mPhase' = [mPhase EXCEPT ![j] = "read"]
  /\ UNCHANGED <<mQueue, mRunning, mCalls, mOutcome, mPromise, mImmediate,
                 counter, mStartOrder, mSeen, mWaited, mInner>>

\* Job body, second half: write the counter back and return.
MutexJobReturn(j) ==
  /\ mPhase[j] = "read"
  /\ ~MutexJobBlocked(j)
  /\ counter' = mLocal[j] + 1
  /\ mOutcome' = [mOutcome EXCEPT ![j] = Fulfilled(j)]
  /\ mPhase' = [mPhase EXCEPT ![j] = "settled"]
  /\ UNCHANGED <<mQueue, mRunning, mCalls, mLocal, mPromise, mImmediate,
                 mStartOrder, mSeen, mWaited, mInner>>

\* The job body throws (before or after its read) without writing.
MutexJobThrow(j) ==
  /\ mPhase[j] \in {"started", "read"}
  /\ ~MutexJobBlocked(j)
  /\ mOutcome' = [mOutcome EXCEPT ![j] = Rejected(j)]
  /\ mPhase' = [mPhase EXCEPT ![j] = "settled"]
  /\ UNCHANGED <<mQueue, mRunning, mCalls, mLocal, mPromise, mImmediate,
                 counter, mStartOrder, mSeen, mWaited, mInner>>

\* Continuation of handle() after `await task.job()`: schedule the settling
\* of the caller's promise, reset running, and handle() the next entry.
MutexHandleResume(j) ==
  /\ mPhase[j] = "settled"
  /\ mImmediate' = Append(mImmediate, [task |-> j, outcome |-> mOutcome[j]])
  /\ LET h == MutexHandleAgain(MutexRunningAfterJob(mOutcome[j]), mQueue)
     IN /\ mQueue' = h.queue
        /\ mRunning' = h.running
        /\ MutexStart(h, [mPhase EXCEPT ![j] = "done"])
  /\ UNCHANGED <<mCalls, mLocal, mOutcome, mPromise, counter, mWaited, mInner>>

\* A setImmediate callback: task.resolve(value) or task.reject(e).
MutexImmediate ==
  /\ mImmediate # <<>>
  /\ LET entry == Head(mImmediate)
         t == MutexSettledTask(entry)
     IN mPromise' = [mPromise EXCEPT ![t] = Settle(@, entry.outcome)]
  /\ mImmediate' = Tail(mImmediate)
  /\ UNCHANGED <<mQueue, mRunning, mCalls, mPhase, mLocal, mOutcome, counter,
                 mStartOrder, mSeen, mWaited, mInner>>

MutexNext ==
  \/ RunExclusive
  \/ \E j \in Jobs : MutexJobReenter(j)
  \/ \E j \in Jobs : MutexJobRead(j)
  \/ \E j \in Jobs : MutexJobReturn(j)
  \/ \E j \in Jobs : MutexJobThrow(j)
  \/ \E j \in Jobs : MutexHandleResume(j)
  \/ MutexImmediate

(***************************************************************************)
(* JobManager                                                              *)
(***************************************************************************)

\* The tasks the loop `while (tasks.length > 1) tasks.shift().cancel()`
\* cancels, and the queue it leaves.
JMSupersededKeepTwo(tasks) ==
  IF Len(tasks) > 2 THEN SubSeq(tasks, 1, Len(tasks) - 2) ELSE <<>>
JMSuperseded(tasks) ==
  IF Len(tasks) > 1 THEN SubSeq(tasks, 1, Len(tasks) - 1) ELSE <<>>

JMSurvivorsOldest(tasks) ==
  IF Len(tasks) > 1 THEN <<tasks[1]>> ELSE tasks
JMSurvivors(tasks) ==
  SubSeq(tasks, Len(JMSuperseded(tasks)) + 1, Len(tasks))

\* tasks.pop(): the task taken and the queue left behind.
JMPopPeek(tasks) == [task |-> tasks[Len(tasks)], rest |-> tasks]
JMPop(tasks) ==
  [task |-> tasks[Len(tasks)], rest |-> SubSeq(tasks, 1, Len(tasks) - 1)]

Range(seq) == {seq[i] : i \in 1..Len(seq)}

\* The synchronous part of handle(): cancel old tasks, then start the last
\* one unless a task is running.  started = 0 when handle() returned early.
JMHandleCancelLate(running, tasks) ==
  IF running \/ tasks = <<>>
  THEN [running |-> running, tasks |-> tasks, cancelled |-> {}, started |-> 0]
  ELSE [running |-> TRUE, tasks |-> <<>>,
        cancelled |-> Range(SubSeq(tasks, 1, Len(tasks) - 1)),
        started |-> tasks[Len(tasks)]]
JMHandle(running, tasks) ==
  LET kept == JMSurvivors(tasks)
      cancelled == Range(tasks) \ Range(kept)
  IN IF running \/ kept = <<>>
     THEN [running |-> running, tasks |-> kept, cancelled |-> cancelled,
           started |-> 0]
     ELSE [running |-> TRUE, tasks |-> JMPop(kept).rest,
           cancelled |-> cancelled, started |-> JMPop(kept).task]

\* handle() as called again after `await task.run()`, running reset.
JMHandleAgainOmitted(tasks) ==
  [running |-> FALSE, tasks |-> tasks, cancelled |-> {}, started |-> 0]
JMHandleAgain(tasks) == JMHandle(FALSE, tasks)

\* Task.run: resolve with the job's value, reject with what it threw.
TaskRunSettleSwallowsError(outcome) ==
  IF outcome.kind = "err" THEN Null ELSE outcome
TaskRunSettle(outcome) == outcome

\* Effect of handle() on the manager and on the tasks it touches.
JMApply(h, phase, promise) ==
  /\ jTasks' = h.tasks
  /\ jRunning' = h.running
  /\ jPhase' = [j \in Offers |->
       IF j = h.started THEN "running"
       ELSE IF j \in h.cancelled /\ phase[j] = "queued" THEN "cancelled"
       ELSE phase[j]]
  /\ jPromise' = [j \in Offers |->
       IF j \in h.cancelled THEN Settle(promise[j], Null) ELSE promise[j]]
  /\ jRuns' = [j \in Offers |-> IF j = h.started THEN jRuns[j] + 1 ELSE jRuns[j]]

\* The job whose body is executing, 0 if none.
JMExecuting == {j \in Offers : jPhase[j] = "running"}
JMExecutingId == IF JMExecuting = {} THEN 0 ELSE CHOOSE j \in JMExecuting : TRUE

\* offer(job): push a Task, then handle() synchronously.
Offer ==
  /\ jOffers < MaxOffers
  /\ LET j == jOffers + 1
         h == JMHandle(jRunning, Append(jTasks, j))
     IN /\ jOffers' = j
        /\ JMApply(h, [jPhase EXCEPT ![j] = "queued"], jPromise)
        /\ jDuring' = [jDuring EXCEPT ![j] = JMExecutingId]
  /\ UNCHANGED jOutcome

\* The job body returns: the promise of task.job() is fulfilled.
JMJobReturn(j) ==
  /\ jPhase[j] = "running"
  /\ jOutcome' = [jOutcome EXCEPT ![j] = Fulfilled(j)]
  /\ jPhase' = [jPhase EXCEPT ![j] = "returned"]
  /\ UNCHANGED <<jTasks, jRunning, jOffers, jPromise, jRuns, jDuring>>

\* The job body throws: the promise of task.job() is rejected.
JMJobThrow(j) ==
  /\ jPhase[j] = "running"
  /\ jOutcome' = [jOutcome EXCEPT ![j] = Rejected(j)]
  /\ jPhase' = [jPhase EXCEPT ![j] = "returned"]
  /\ UNCHANGED <<jTasks, jRunning, jOffers, jPromise, jRuns, jDuring>>

\* Continuation of Task.run after `await this.job()`: resolve or reject.
TaskRunResume(j) ==
  /\ jPhase[j] = "returned"
  /\ jPromise' = [jPromise EXCEPT ![j] = Settle(@, TaskRunSettle(jOutcome[j]))]
  /\ jPhase' = [jPhase EXCEPT ![j] = "ran"]
  /\ UNCHANGED <<jTasks, jRunning, jOffers, jOutcome, jRuns, jDuring>>

\* Continuation of handle() after `await task.run()`: reset running and
\* handle() a possible new task.
JMHandleResume(j) ==
  /\ jPhase[j] = "ran"
  /\ JMApply(JMHandleAgain(jTasks), [jPhase EXCEPT ![j] = "done"], jPromise)
  /\ UNCHANGED <<jOffers, jOutcome, jDuring>>

JMNext ==
  \/ Offer
  \/ \E j \in Offers : JMJobReturn(j)
  \/ \E j \in Offers : JMJobThrow(j)
  \/ \E j \in Offers : TaskRunResume(j)
  \/ \E j \in Offers : JMHandleResume(j)

(***************************************************************************)
(* CacheOnSuccess                                                          *)
(***************************************************************************)

\* Values of `value`: undefined, and what the job may return, among them
\* the falsy empty string.
Undefined == "undefined"
CacheResults == {"undefined", "", "ok"}

\* JavaScript truthiness of a value, as tested by `if (this.value)`.
Truthy(v) == v \notin {"undefined", ""}

\* State of an attempt's promise and of a call's returned promise.  A call
\* that returned this.promise follows that attempt's promise.
CachePending == [kind |-> "pending", val |-> Undefined, att |-> 0]
CacheOk(v) == [kind |-> "ok", val |-> v, att |-> 0]
CacheErr(k) == [kind |-> "err", val |-> Undefined, att |-> k]
CacheFollows(k) == [kind |-> "follows", val |-> Undefined, att |-> k]

\* `if (this.value)`: the cached value is returned.
CacheHasValue(value) == Truthy(value)

\* `if (this.promise)`: the held promise is returned.
CacheHasPromiseNever(promise) == FALSE
CacheHasPromise(promise) == promise # 0

\* this.promise after the awaited attempt succeeded: left in place.
CachePromiseAfterSuccessCleared(promise) == 0
CachePromiseAfterSuccess(promise) == promise

\* this.promise after `this.promise = this.job()`: the new attempt.
CachePromiseAfterInvokeNotStored(k) == 0
CachePromiseAfterInvoke(k) == k

\* this.promise after the awaited attempt failed: cleared by the catch.
CachePromiseAfterFailureKept(promise) == promise
CachePromiseAfterFailure(promise) == 0

\* The settled or pending state of the promise a getOrThrow call returned.
CallOutcome(c) ==
  IF cAwait[c] # 0 THEN CachePending
  ELSE IF cResult[c].kind = "follows" THEN cAttempt[cResult[c].att]
  ELSE cResult[c]

\* getOrThrow(), up to its return or its await.
GetOrThrow ==
  /\ cCalls < MaxGets
  /\ LET c == cCalls + 1
         k == cAttempts + 1
     IN /\ cCalls' = c
        /\ cLate' = IF cSucceeded # 0 THEN cLate \cup {c} ELSE cLate
        /\ cSequential' = (cSequential /\ \A b \in 1..cCalls :
                                            CallOutcome(b) # CachePending)
        /\ cJoined' = [cJoined EXCEPT ![c] =
             IF CacheHasValue(cValue) THEN 0
             ELSE IF CacheHasPromise(cPromise)
             THEN (IF cAttempt[cPromise] = CachePending THEN cPromise ELSE 0)
             ELSE k]
        /\ IF CacheHasValue(cValue)
           THEN /\ cResult' = [cResult EXCEPT ![c] = CacheOk(cValue)]
                /\ UNCHANGED <<cPromise, cAttempts, cAwait>>
           ELSE IF CacheHasPromise(cPromise)
           THEN /\ cResult' = [cResult EXCEPT ![c] = CacheFollows(cPromise)]
                /\ UNCHANGED <<cPromise, cAttempts, cAwait>>
           ELSE /\ cAttempts' = k
                /\ cPromise' = CachePromiseAfterInvoke(k)
                /\ cAwait' = [cAwait EXCEPT ![c] = k]
                /\ UNCHANGED cResult
  /\ UNCHANGED <<cValue, cAttempt, cSucceeded>>

\* The underlying job succeeds: its promise is fulfilled with v.
CacheJobSucceed(k) ==
  /\ k <= cAttempts
  /\ cAttempt[k] = CachePending
  /\ \E v \in CacheResults : cAttempt' = [cAttempt EXCEPT ![k] = CacheOk(v)]
  /\ cSucceeded' = IF cSucceeded = 0 THEN k ELSE cSucceeded
  /\ UNCHANGED <<cValue, cPromise, cCalls, cAttempts, cAwait, cResult, cLate,
                 cJoined, cSequential>>

\* The underlying job fails: its promise is rejected.
CacheJobFail(k) ==
  /\ k <= cAttempts
  /\ cAttempt[k] = CachePending
  /\ cAttempt' = [cAttempt EXCEPT ![k] = CacheErr(k)]
  /\ UNCHANGED <<cValue, cPromise, cCalls, cAttempts, cAwait, cResult,
                 cSucceeded, cLate, cJoined, cSequential>>

\* Continuation of getOrThrow() after `await this.promise`: store and
\* return the value, or clear the cell and rethrow.
GetOrThrowResume(c) ==
  /\ cAwait[c] # 0
  /\ cAttempt[cAwait[c]] # CachePending
  /\ LET a == cAttempt[cAwait[c]]
     IN IF a.kind = "ok"
        THEN /\ cValue' = a.val
             /\ cPromise' = CachePromiseAfterSuccess(cPromise)
             /\ cResult' = [cResult EXCEPT ![c] = CacheOk(a.val)]
        ELSE /\ cValue' = Undefined
             /\ cPromise' = CachePromiseAfterFailure(cPromise)
             /\ cResult' = [cResult EXCEPT ![c] = a]
  /\ cAwait' = [cAwait EXCEPT ![c] = 0]
  /\ UNCHANGED <<cCalls, cAttempts, cAttempt, cSucceeded, cLate, cJoined,
                 cSequential>>

CacheNext ==
  \/ GetOrThrow
  \/ \E k \in Gets : CacheJobSucceed(k)
  \/ \E k \in Gets : CacheJobFail(k)
  \/ \E c \in Gets : GetOrThrowResume(c)

(***************************************************************************)
(* Ebuild.generate: one Mutex per board, package and source root           *)
(***************************************************************************)

\* Strings are sequences of characters.  Board names, package names and
\* source roots do not contain ':'; a package name followed by a root can
\* read the same as another package name followed by another root.
Boards == {<<"x">>, <<"y">>}
Packages == {<<"p">>, <<"p", "q">>}
Roots == {<<"r">>, <<"q", "r">>}

NoArgs == [board |-> <<>>, pkg |-> <<>>, root |-> <<>>]

\* Outcome of the generation job: an artifact, undefined, or a CompdbError.
EbuildPending == [kind |-> "pending", val |-> "none"]
EbuildOk(v) == [kind |-> "ok", val |-> v]
EbuildErr(k) == [kind |-> "err", val |-> k]

\* The key of the Mutex: `${board}:${qualifiedPackageName}:${source.root}`.
EbuildKeyNoSeparator(a) == a.board \o a.pkg \o a.root
EbuildKey(a) == a.board \o <<":">> \o a.pkg \o <<":">> \o a.root

\* globalMutexMap.get(key): the position of the key, 0 when absent.
EbuildExistingNone(map, key) == 0
EbuildExisting(map, key) ==
  IF \E i \in 1..Len(map) : map[i] = key
  THEN CHOOSE i \in 1..Len(map) : map[i] = key
  ELSE 0

\* this.mutex(): the Mutex found, or a new one stored under the key.
EbuildMutex(map, key) ==
  IF EbuildExisting(map, key) # 0
  THEN [map |-> map, mutex |-> EbuildExisting(map, key)]
  ELSE [map |-> Append(map, key), mutex |-> Len(map) + 1]

\* Effect of Mutex.handle() of instance m on the calls.
EbuildStart(m, h, phase) ==
  /\ gQueue' = [gQueue EXCEPT ![m] = h.queue]
  /\ gRunning' = [gRunning EXCEPT ![m] = h.running]
  /\ gPhase' = [c \in Generates |->
                  IF c = h.started THEN "removeCache" ELSE phase[c]]

\* generate(): look the Mutex up, runExclusive the job on it; the job
\* starts with removeCache() when the Mutex is free.
Generate(a) ==
  /\ gCalls < MaxGenerates
  /\ LET c == gCalls + 1
         l == EbuildMutex(gMap, EbuildKey(a))
         h == MutexHandle(gRunning[l.mutex], Append(gQueue[l.mutex], c))
     IN /\ gCalls' = c
        /\ gArgs' = [gArgs EXCEPT ![c] = a]
        /\ gMap' = l.map
        /\ gMutex' = [gMutex EXCEPT ![c] = l.mutex]
        /\ EbuildStart(l.mutex, h, [gPhase EXCEPT ![c] = "queued"])
  /\ UNCHANGED <<gOutcome, gPromise, gImmediate>>

\* The job moves from one step to the next.
EbuildAdvance(c, from, to) ==
  /\ gPhase[c] = from
  /\ gPhase' = [gPhase EXCEPT ![c] = to]
  /\ UNCHANGED <<gMap, gQueue, gRunning, gCalls, gArgs, gMutex, gOutcome,
                 gPromise, gImmediate>>

\* The job returns or throws: its promise settles.
EbuildSettle(c, from, outcome) ==
  /\ gPhase[c] = from
  /\ gPhase' = [gPhase EXCEPT ![c] = "settled"]
  /\ gOutcome' = [gOutcome EXCEPT ![c] = outcome]
  /\ UNCHANGED <<gMap, gQueue, gRunning, gCalls, gArgs, gMutex, gPromise,
                 gImmediate>>

\* removeCache() returns.
RemoveCacheDone(c) == EbuildAdvance(c, "removeCache", "runCompgen")

\* removeCache() throws its CompdbError; the job throws it.
RemoveCacheFail(c) == EbuildSettle(c, "removeCache", EbuildErr("RemoveCache"))

\* runCompgen() returns.
RunCompgenDone(c) == EbuildAdvance(c, "runCompgen", "artifactPath")

\* runCompgen() throws; the job throws a CompdbError of kind RunEbuild.
RunCompgenFail(c) == EbuildSettle(c, "runCompgen", EbuildErr("RunEbuild"))

\* artifactPath() returns an artifact or undefined; the job returns it.
ArtifactPathDone(c) ==
  \E v \in {"artifact", "undefined"} :
    EbuildSettle(c, "artifactPath", EbuildOk(v))

\* Continuation of Mutex.handle() after `await task.job()`.
EbuildHandleResume(c) ==
  /\ gPhase[c] = "settled"
  /\ gImmediate' = Append(gImmediate, [task |-> c, outcome |-> gOutcome[c]])
  /\ LET m == gMutex[c]
         h == MutexHandleAgain(MutexRunningAfterJob(gOutcome[c]), gQueue[m])
     IN EbuildStart(m, h, [gPhase EXCEPT ![c] = "done"])
  /\ UNCHANGED <<gMap, gCalls, gArgs, gMutex, gOutcome, gPromise>>

\* A setImmediate callback of Mutex.handle(): settle generate's promise.
EbuildImmediate ==
  /\ gImmediate # <<>>
  /\ LET entry == Head(gImmediate)
         t == MutexSettledTask(entry)
     IN gPromise' = [gPromise EXCEPT ![t] =
                       IF @ = EbuildPending THEN entry.outcome ELSE @]
  /\ gImmediate' = Tail(gImmediate)
  /\ UNCHANGED <<gMap, gQueue, gRunning, gCalls, gArgs, gMutex, gPhase,
                 gOutcome>>

EbuildNext ==
  \/ \E b \in Boards, p \in Packages, r \in Roots :
       Generate([board |-> b, pkg |-> p, root |-> r])
  \/ \E c \in Generates : RemoveCacheDone(c)
  \/ \E c \in Generates : RemoveCacheFail(c)
  \/ \E c \in Generates : RunCompgenDone(c)
  \/ \E c \in Generates : RunCompgenFail(c)
  \/ \E c \in Generates : ArtifactPathDone(c)
  \/ \E c \in Generates : EbuildHandleResume(c)
  \/ EbuildImmediate

(***************************************************************************)
(* exec: run a command, capture and log its output                         *)
(***************************************************************************)

\* ExecResult.exitStatus is a number, or null when a signal ended the
\* process; no exit code is negative.
NullStatus == -1

ExitStatuses == {0, 1, NullStatus}

\* Data chunks: strings as sequences of characters.
Chunks == {<<"a">>, <<"b", "\n">>}

\* ExecOptions: is a logger given, logStdout, ignoreNonZeroExit, is a
\* cancellationToken given, treeKillWhenCancelling.
ExecOptions ==
  [logger : BOOLEAN, logStdout : BOOLEAN, ignoreNonZeroExit : BOOLEAN,
   token : BOOLEAN, treeKill : BOOLEAN]

NoOptions ==
  [logger |-> FALSE, logStdout |-> FALSE, ignoreNonZeroExit |-> FALSE,
   token |-> FALSE, treeKill |-> FALSE]

\* What the promise of exec holds.
ExecPending ==
  [kind |-> "pending", exitStatus |-> NullStatus, stdout |-> <<>>, stderr |-> <<>>]
ExecResult(status, out, err) ==
  [kind |-> "result", exitStatus |-> status, stdout |-> out, stderr |-> err]
AbnormalExitError(status, out, err) ==
  [kind |-> "abnormal", exitStatus |-> status, stdout |-> out, stderr |-> err]
ProcessError ==
  [kind |-> "process", exitStatus |-> NullStatus, stdout |-> <<>>, stderr |-> <<>>]
CancelledError ==
  [kind |-> "cancelled", exitStatus |-> NullStatus, stdout |-> <<>>, stderr |-> <<>>]

\* resolve(v) of the promise: only the first call decides.
ExecResolveLast(p, v) == v
ExecResolve(p, v) == IF p.kind = "pending" THEN v ELSE p

\* The line logged at the start: the escaped command line and a newline.
CommandLine == <<"c", "\n">>

\* `stdout += data`, `stderr += data`.
ExecAccumulateLatest(acc, data) == data
ExecAccumulate(acc, data) == acc \o data

\* The stdout handler logs only with a logger and logStdout.
ExecLogsStdoutAlways(opts) == opts.logger
ExecLogsStdout(opts) == opts.logger /\ opts.logStdout

\* The newline appended on 'close' and 'error'.
ExecFlushNever(log, opts, lastChar) == log
ExecFlush(log, opts, lastChar) ==
  IF opts.logger /\ lastChar # "" /\ lastChar # "\n"
  THEN Append(log, [src |-> "flush", text |-> <<"\n">>])
  ELSE log

\* The two resolve calls of the 'close' handler.
ExecCloseOutcomeInverted(p, opts, status, out, err) ==
  ExecResolve(IF opts.ignoreNonZeroExit /\ status # 0
              THEN ExecResolve(p, AbnormalExitError(status, out, err))
              ELSE p,
              ExecResult(status, out, err))
ExecCloseOutcome(p, opts, status, out, err) ==
  ExecResolve(IF ~opts.ignoreNonZeroExit /\ status # 0
              THEN ExecResolve(p, AbnormalExitError(status, out, err))
              ELSE p,
              ExecResult(status, out, err))

\* The resolve call of the 'error' handler.
ExecErrorOutcomeNone(p) == p
ExecErrorOutcome(p) == ExecResolve(p, ProcessError)

\* cancel(): the condition of the direct kill (no tree kill asked, no
\* pid, or the process has exited with a code).
ExecKillsDirectlyNever(opts, pid, exitCode) == FALSE
ExecKillsDirectlyAlways(opts, pid, exitCode) == TRUE
ExecKillsDirectly(opts, pid, exitCode) ==
  \/ ~opts.treeKill
  \/ ~pid
  \/ exitCode # NullStatus

\* cancel(): kill and resolve at once, or start treeKill.
ExecCancel(p, opts, pid, exitCode, killed, tree) ==
  IF ExecKillsDirectly(opts, pid, exitCode)
  THEN [promise |-> ExecResolve(p, CancelledError), killed |-> TRUE,
        tree |-> tree]
  ELSE [promise |-> p, killed |-> killed, tree |-> "pending"]

\* exec(name, args, options): the executor of the promise.
Exec(opts, spawned) ==
  /\ eProc = "none"
  /\ eOpts' = opts
  /\ eLog' = IF opts.logger
             THEN <<[src |-> "cmd", text |-> CommandLine]>>
             ELSE <<>>
  /\ eProc' = IF spawned THEN "running" ELSE "failed"
  /\ ePid' = spawned
  /\ IF opts.token /\ eToken
     THEN LET r == ExecCancel(ePromise, opts, ePid', eExitCode, eKilled,
                              eTreeKill)
          IN /\ ePromise' = r.promise
             /\ eKilled' = r.killed
             /\ eTreeKill' = r.tree
             /\ eCancelAt' = "pre"
     ELSE UNCHANGED <<ePromise, eKilled, eTreeKill, eCancelAt>>
  /\ UNCHANGED <<eToken, eExitCode, eStdout, eStderr, eLastChar, eArrived,
                 eChild, eTreeSignalled, eChildAtCancel>>

\* The token is cancelled; after exec subscribed to it, cancel() runs.
ExecCancelToken ==
  /\ ~eToken
  /\ eProc = "none" \/ eOpts.token
  /\ eToken' = TRUE
  /\ IF eProc # "none"
     THEN LET r == ExecCancel(ePromise, eOpts, ePid, eExitCode, eKilled,
                              eTreeKill)
          IN /\ ePromise' = r.promise
             /\ eKilled' = r.killed
             /\ eTreeKill' = r.tree
             /\ eCancelAt' = eProc
             /\ eChildAtCancel' = (eChild = "running")
     ELSE UNCHANGED <<ePromise, eKilled, eTreeKill, eCancelAt, eChildAtCancel>>
  /\ UNCHANGED <<eOpts, eProc, ePid, eExitCode, eStdout, eStderr, eLastChar,
                 eLog, eArrived, eChild, eTreeSignalled>>

\* 'data' on command.stdout.
ExecStdoutData(data) ==
  /\ eProc \in {"running", "exited"}
  /\ Len(eArrived) < MaxChunks
  /\ eArrived' = Append(eArrived, [src |-> "stdout", text |-> data])
  /\ IF ExecLogsStdout(eOpts)
     THEN /\ eLog' = Append(eLog, [src |-> "stdout", text |-> data])
          /\ eLastChar' = data[Len(data)]
     ELSE UNCHANGED <<eLog, eLastChar>>
  /\ eStdout' = ExecAccumulate(eStdout, data)
  /\ UNCHANGED <<eOpts, eToken, eProc, ePid, eExitCode, eKilled, eTreeKill,
                 eStderr, ePromise, eCancelAt, eChild,
                 eTreeSignalled, eChildAtCancel>>

\* 'data' on command.stderr.
ExecStderrData(data) ==
  /\ eProc \in {"running", "exited"}
  /\ Len(eArrived) < MaxChunks
  /\ eArrived' = Append(eArrived, [src |-> "stderr", text |-> data])
  /\ IF eOpts.logger
     THEN /\ eLog' = Append(eLog, [src |-> "stderr", text |-> data])
          /\ eLastChar' = data[Len(data)]
     ELSE UNCHANGED <<eLog, eLastChar>>
  /\ eStderr' = ExecAccumulate(eStderr, data)
  /\ UNCHANGED <<eOpts, eToken, eProc, ePid, eExitCode, eKilled, eTreeKill,
                 eStdout, ePromise, eCancelAt, eChild,
                 eTreeSignalled, eChildAtCancel>>

\* The process ends, with an exit code or by a signal.
ExecProcessExit(status) ==
  /\ eProc = "running"
  /\ eProc' = "exited"
  /\ eExitCode' = status
  /\ UNCHANGED <<eOpts, eToken, ePid, eKilled, eTreeKill, eStdout, eStderr,
                 eLastChar, eLog, ePromise, eArrived, eCancelAt, eChild,
                 eTreeSignalled, eChildAtCancel>>

\* 'close': the process has ended and its streams are closed.
ExecClose ==
  /\ eProc \in {"exited", "errored"}
  /\ eProc' = "closed"
  /\ eLog' = ExecFlush(eLog, eOpts, eLastChar)
  /\ ePromise' = ExecCloseOutcome(ePromise, eOpts, eExitCode, eStdout, eStderr)
  /\ UNCHANGED <<eOpts, eToken, ePid, eExitCode, eKilled, eTreeKill, eStdout,
                 eStderr, eLastChar, eArrived, eCancelAt, eChild,
                 eTreeSignalled, eChildAtCancel>>

\* 'error': the command could not be spawned.  The 'close' that follows
\* reports a non-zero status.
ExecError ==
  /\ eProc = "failed"
  /\ eProc' = "errored"
  /\ eExitCode' = 1
  /\ eLog' = ExecFlush(eLog, eOpts, eLastChar)
  /\ ePromise' = ExecErrorOutcome(ePromise)
  /\ UNCHANGED <<eOpts, eToken, ePid, eKilled, eTreeKill, eStdout, eStderr,
                 eLastChar, eArrived, eCancelAt, eChild, eTreeSignalled,
                 eChildAtCancel>>

\* The processes of the command's tree that are running.
ExecTree ==
  (IF eProc = "running" THEN {"command"} ELSE {})
    \cup (IF eChild = "running" THEN {"child"} ELSE {})

\* `if (err) command.kill()` in the callback of treeKill: the fallback.
ExecTreeKillFallbackOmitted(killed, err) == killed
ExecTreeKillFallback(killed, err) == killed \/ err

\* The callback of treeKill: without an error after the signal was sent to
\* every process of the tree, or with an error.
ExecTreeKillCallback(err) ==
  /\ eTreeKill = "pending"
  /\ eTreeKill' = IF err THEN "failed" ELSE "done"
  /\ eTreeSignalled' = IF err THEN eTreeSignalled ELSE ExecTree
  /\ eKilled' = ExecTreeKillFallback(eKilled, err)
  /\ ePromise' = ExecResolve(ePromise, CancelledError)
  /\ UNCHANGED <<eOpts, eToken, eProc, ePid, eExitCode, eStdout, eStderr,
                 eLastChar, eLog, eArrived, eCancelAt, eChild, eChildAtCancel>>

\* The running command spawns a process of its own.
ExecSpawnChild ==
  /\ eProc = "running"
  /\ eChild = "none"
  /\ eChild' = "running"
  /\ UNCHANGED <<eOpts, eToken, eProc, ePid, eExitCode, eKilled, eTreeKill,
                 eStdout, eStderr, eLastChar, eLog, ePromise, eArrived,
                 eCancelAt, eTreeSignalled, eChildAtCancel>>

\* The spawned process ends, by itself or by a signal.
ExecChildExit ==
  /\ eChild = "running"
  /\ eChild' = "dead"
  /\ UNCHANGED <<eOpts, eToken, eProc, ePid, eExitCode, eKilled, eTreeKill,
                 eStdout, eStderr, eLastChar, eLog, ePromise, eArrived,
                 eCancelAt, eTreeSignalled, eChildAtCancel>>

ExecNext ==
  \/ \E opts \in ExecOptions, spawned \in BOOLEAN : Exec(opts, spawned)
  \/ ExecCancelToken
  \/ \E data \in Chunks : ExecStdoutData(data)
  \/ \E data \in Chunks : ExecStderrData(data)
  \/ \E status \in ExitStatuses : ExecProcessExit(status)
  \/ ExecClose
  \/ ExecError
  \/ \E err \in BOOLEAN : ExecTreeKillCallback(err)
  \/ ExecSpawnChild
  \/ ExecChildExit

(***************************************************************************)
(* The job of Ebuild.generate step by step: removeCache, runCompgen,       *)
(* artifactPath                                                            *)
(***************************************************************************)

\* buildDirs() returns three directories.
NumBuildDirs == 3

BuildDirs == 1..NumBuildDirs

\* `[this.crosFs.chroot, this.crosFs.out]`, in iteration order.
FsRoots == <<"chroot", "out">>

\* The cache files removed in one try block, in order.
CacheFiles == <<".configured", ".compiled">>

\* Modification times: days of January 2021.
Days == 1..MaxDay

\* Names of the days of the week as UTF-16 code units, Sunday first.
WeekdayNames ==
  << <<83, 117, 110>>, <<77, 111, 110>>, <<84, 117, 101>>, <<87, 101, 100>>,
     <<84, 104, 117>>, <<70, 114, 105>>, <<83, 97, 116>> >>

\* Code units of the two decimal digits of a day of the month.
TwoDigits(d) == <<48 + (d \div 10), 48 + (d % 10)>>

\* Date.prototype.toString(), up to the day of the month: "Fri Jan 01"
\* for day 1 (1 January 2021 was a Friday).
DateToString(d) ==
  WeekdayNames[((d + 4) % 7) + 1] \o <<32, 74, 97, 110, 32>> \o TwoDigits(d)

\* String([date, artifact]): the date's text, a comma, the object's text
\* (the same for every artifact, left out).
ElementToString(c) == DateToString(c.mtime) \o <<44>>

\* a < b for strings: comparison by code units.
RECURSIVE StringLess(_, _)
StringLess(a, b) ==
  IF b = <<>> THEN FALSE
  ELSE IF a = <<>> THEN TRUE
  ELSE IF Head(a) # Head(b) THEN Head(a) < Head(b)
  ELSE StringLess(Tail(a), Tail(b))

\* The order Array.prototype.sort() uses without a comparator: elements
\* are compared as strings.
SortLessByTime(x, y) == x.mtime < y.mtime
SortLess(x, y) == StringLess(ElementToString(x), ElementToString(y))

\* Insert x into a sorted sequence behind every element not greater than it.
RECURSIVE SortInsert(_, _)
SortInsert(sorted, x) ==
  IF sorted = <<>> THEN <<x>>
  ELSE IF SortLess(x, Head(sorted)) THEN <<x>> \o sorted
  ELSE <<Head(sorted)>> \o SortInsert(Tail(sorted), x)

\* candidates.sort(): a stable sort.
RECURSIVE ArraySort(_)
ArraySort(seq) ==
  IF seq = <<>> THEN <<>>
  ELSE SortInsert(ArraySort(SubSeq(seq, 1, Len(seq) - 1)), seq[Len(seq)])

\* candidates.pop(): the last element.
ArrayPop(seq) == seq[Len(seq)]

NoError == [dir |-> 0, fs |-> 0, file |-> 0]

\* Outcome of the job: pending, an artifact, undefined, or a CompdbError.
JobPending == [kind |-> "pending", dir |-> 0, fs |-> 0, file |-> 0]
JobArtifact(c) == [kind |-> "artifact", dir |-> c.dir, fs |-> c.fs, file |-> 0]
JobUndefined == [kind |-> "undefined", dir |-> 0, fs |-> 0, file |-> 0]
JobRemoveCacheError(e) ==
  [kind |-> "RemoveCache", dir |-> e.dir, fs |-> e.fs, file |-> e.file]
JobRunEbuildError == [kind |-> "RunEbuild", dir |-> 0, fs |-> 0, file |-> 0]

\* What the end of artifactPath() returns.
ArtifactPathResultThrows(candidates) ==
  IF Len(candidates) = 0 THEN JobRunEbuildError
  ELSE JobArtifact(ArrayPop(ArraySort(candidates)))
ArtifactPathResult(candidates) ==
  IF Len(candidates) = 0 THEN JobUndefined
  ELSE JobArtifact(ArrayPop(ArraySort(candidates)))

\* The catch block of removeCache(): the error kept for the directory.
RemoveCacheErrorKeepFirst(firstError, e) ==
  IF firstError = NoError THEN e ELSE firstError
RemoveCacheError(firstError, e) == e

\* `if (!hasRemovedCache) throw firstError`, checked after the roots of
\* one directory.
RemoveCacheThrowsNever(hasRemovedCache) == FALSE
RemoveCacheThrows(hasRemovedCache) == ~hasRemovedCache

\* The async function passed to runExclusive starts: removeCache() begins
\* with the first directory and root.
JobStart ==
  /\ bPhase = "idle"
  /\ bPhase' = "removeCache"
  /\ bDir' = 1
  /\ bFs' = 1
  /\ bFile' = 1
  /\ UNCHANGED <<bHasRemoved, bFirstError, bDirFirst, bDirsRemoved,
                 bBlockFailed, bCommands, bCandidates, bSearched, bResult>>

\* One `await fs.rm(cache, {force: true})` of removeCache() settles, and the
\* code runs on to the next rm, to the throw, or to the return.
RemoveCacheRm(ok) ==
  /\ bPhase = "removeCache"
  /\ LET e == [dir |-> bDir, fs |-> bFs, file |-> bFile]
         blockEnds == ~ok \/ bFile = Len(CacheFiles)
         has == bHasRemoved \/ (ok /\ bFile = Len(CacheFiles))
         err == IF ok THEN bFirstError ELSE RemoveCacheError(bFirstError, e)
         first == IF ~ok /\ bDirFirst = NoError THEN e ELSE bDirFirst
         dirEnds == blockEnds /\ bFs = Len(FsRoots)
     IN /\ bDirsRemoved' = IF ok /\ bFile = Len(CacheFiles)
                           THEN bDirsRemoved \cup {bDir}
                           ELSE bDirsRemoved
        /\ bBlockFailed' = (bBlockFailed \/ ~ok)
        /\ IF ~blockEnds
           THEN /\ bFile' = bFile + 1
                /\ UNCHANGED <<bPhase, bDir, bFs, bHasRemoved, bFirstError,
                               bDirFirst, bResult>>
           ELSE IF ~dirEnds
           THEN /\ bFs' = bFs + 1
                /\ bFile' = 1
                /\ bHasRemoved' = has
                /\ bFirstError' = err
                /\ bDirFirst' = first
                /\ UNCHANGED <<bPhase, bDir, bResult>>
           ELSE IF RemoveCacheThrows(has)
           THEN /\ bPhase' = "thrown"
                /\ bResult' = JobRemoveCacheError(err)
                /\ bHasRemoved' = has
                /\ bFirstError' = err
                /\ bDirFirst' = first
                /\ UNCHANGED <<bDir, bFs, bFile>>
           ELSE /\ bPhase' = IF bDir = NumBuildDirs THEN "ebuild9999"
                             ELSE "removeCache"
                /\ bDir' = IF bDir = NumBuildDirs THEN 1 ELSE bDir + 1
                /\ bFs' = 1
                /\ bFile' = 1
                /\ bHasRemoved' = FALSE
                /\ bFirstError' = NoError
                /\ bDirFirst' = NoError
                /\ UNCHANGED bResult
  /\ UNCHANGED <<bCommands, bCandidates, bSearched>>

\* The result of a command is an Error (abnormal exit, process error or
\* cancellation) or an ExecResult.
CommandResults == {"result", "abnormal", "process", "cancelled"}

\* runCompgen(): the command of ebuild9999() has finished.
Ebuild9999(res) ==
  /\ bPhase = "ebuild9999"
  /\ bCommands' = Append(bCommands, "equery")
  /\ IF res # "result"
     THEN /\ bPhase' = "thrown"
          /\ bResult' = JobRunEbuildError
     ELSE /\ bPhase' = "compgen"
          /\ UNCHANGED bResult
  /\ UNCHANGED <<bDir, bFs, bFile, bHasRemoved, bFirstError, bDirFirst,
                 bDirsRemoved, bBlockFailed, bCandidates, bSearched>>

\* runCompgen(): the ebuild command has finished.
RunCompgen(res) ==
  /\ bPhase = "compgen"
  /\ bCommands' = Append(bCommands, "ebuild")
  /\ IF res # "result"
     THEN /\ bPhase' = "thrown"
          /\ bResult' = JobRunEbuildError
     ELSE /\ bPhase' = "artifactPath"
          /\ UNCHANGED bResult
  /\ UNCHANGED <<bDir, bFs, bFile, bHasRemoved, bFirstError, bDirFirst,
                 bDirsRemoved, bBlockFailed, bCandidates, bSearched>>

\* One `await fs.stat(file)` of artifactPath() settles: the file is pushed
\* with its modification time, or the error is ignored; after the last one
\* the result is returned.
ArtifactPathStat(found, mtime) ==
  /\ bPhase = "artifactPath"
  /\ LET cands == IF found
                  THEN Append(bCandidates,
                              [mtime |-> mtime, dir |-> bDir, fs |-> bFs])
                  ELSE bCandidates
         last == bDir = NumBuildDirs /\ bFs = Len(FsRoots)
     IN /\ bCandidates' = cands
        /\ bSearched' = TRUE
        /\ IF last
           THEN /\ bPhase' = "returned"
                /\ bResult' = ArtifactPathResult(cands)
                /\ UNCHANGED <<bDir, bFs>>
           ELSE /\ bFs' = IF bFs = Len(FsRoots) THEN 1 ELSE bFs + 1
                /\ bDir' = IF bFs = Len(FsRoots) THEN bDir + 1 ELSE bDir
                /\ UNCHANGED <<bPhase, bResult>>
  /\ UNCHANGED <<bFile, bHasRemoved, bFirstError, bDirFirst, bDirsRemoved,
                 bBlockFailed, bCommands>>

JobNext ==
  \/ JobStart
  \/ \E ok \in BOOLEAN : RemoveCacheRm(ok)
  \/ \E res \in CommandResults : Ebuild9999(res)
  \/ \E res \in CommandResults : RunCompgen(res)
  \/ \E mtime \in Days : ArtifactPathStat(TRUE, mtime)
  \/ ArtifactPathStat(FALSE, 1)

(***************************************************************************)
(* withTimeout: Promise.race of an operation and a timer                   *)
(***************************************************************************)

\* Promises of withTimeout: pending, fulfilled with a value or with
\* undefined, rejected.
TimeoutPending == [kind |-> "pending", val |-> "none"]
TimeoutValue(v) == [kind |-> "ok", val |-> v]
TimeoutUndefined == [kind |-> "ok", val |-> "undefined"]
TimeoutError == [kind |-> "err", val |-> "error"]

\* What the operation `f` settles with.
OperationOutcomes == {TimeoutValue("a"), TimeoutValue("b"), TimeoutError}

\* Promise.race: the promise takes the outcome of the first member whose
\* reaction runs; later reactions have no effect.
RaceSettleLast(p, outcome) == outcome
RaceSettle(p, outcome) == IF p = TimeoutPending THEN outcome ELSE p

\* withTimeout(f, millis): the timer is armed and the race subscribes to f;
\* the reaction to an f that is already settled is queued at once.
WithTimeout(f) ==
  /\ wCalls < MaxTimeouts
  /\ LET c == wCalls + 1
     IN /\ wCalls' = c
        /\ wOp' = [wOp EXCEPT ![c] = f]
        /\ wTimer' = [wTimer EXCEPT ![c] = "armed"]
        /\ wFirst' = [wFirst EXCEPT ![c] =
                        IF f = TimeoutPending THEN "none" ELSE "operation"]
        /\ wMicrotasks' = IF f = TimeoutPending THEN wMicrotasks
                          ELSE Append(wMicrotasks, [call |-> c, outcome |-> f])
  /\ UNCHANGED wRace

\* The operation settles; the reaction of the race is queued.
OperationSettles(c, outcome) ==
  /\ c <= wCalls
  /\ wOp[c] = TimeoutPending
  /\ wOp' = [wOp EXCEPT ![c] = outcome]
  /\ wFirst' = [wFirst EXCEPT ![c] = IF @ = "none" THEN "operation" ELSE @]
  /\ wMicrotasks' = Append(wMicrotasks, [call |-> c, outcome |-> outcome])
  /\ UNCHANGED <<wCalls, wTimer, wRace>>

\* The setTimeout callback, run when no promise reaction is pending:
\* resolve(undefined); the reaction of the race is queued.
TimerFires(c) ==
  /\ wTimer[c] = "armed"
  /\ wMicrotasks = <<>>
  /\ wTimer' = [wTimer EXCEPT ![c] = "fired"]
  /\ wFirst' = [wFirst EXCEPT ![c] = IF @ = "none" THEN "timer" ELSE @]
  /\ wMicrotasks' = Append(wMicrotasks,
                           [call |-> c, outcome |-> TimeoutUndefined])
  /\ UNCHANGED <<wCalls, wOp, wRace>>

\* The oldest pending reaction of a race runs.
RaceReaction ==
  /\ wMicrotasks # <<>>
  /\ LET r == Head(wMicrotasks)
     IN wRace' = [wRace EXCEPT ![r.call] = RaceSettle(@, r.outcome)]
  /\ wMicrotasks' = Tail(wMicrotasks)
  /\ UNCHANGED <<wCalls, wOp, wTimer, wFirst>>

TimeoutNext ==
  \/ \E f \in OperationOutcomes \cup {TimeoutPending} : WithTimeout(f)
  \/ \E c \in Timeouts, outcome \in OperationOutcomes :
       OperationSettles(c, outcome)
  \/ \E c \in Timeouts : TimerFires(c)
  \/ RaceReaction

(***************************************************************************)
(* CppCodeCompletion: triggers, the JobManager and the status of the task  *)
(***************************************************************************)

\* The documents triggers are about.
Documents == {"a.cc", "b.cc"}

\* The error kinds `${generator.name}: ${rawError.kind}` of a generator.
ErrorKinds == {"kindA", "kindB"}

\* `if (this.ignoredErrors.has(errorKind)) return;`, and otherwise
\* setStatus(ERROR): the status the catch block leaves.
CppStatusAfterErrorAlwaysError(status, ignored, kind) == "ERROR"
CppStatusAfterError(status, ignored, kind) ==
  IF kind \in ignored THEN status ELSE "ERROR"

\* setTask(RUNNING) at the start of the job handle() started, if any.
CppStatusAfterHandle(status, h) ==
  IF h.started # 0 THEN "RUNNING" ELSE status

\* Effect of jobManager.handle() on the manager, on the tasks it touches
\* and, through the job it starts, on the status.
CppApply(h, phase, promise) ==
  /\ xTasks' = h.tasks
  /\ xRunning' = h.running
  /\ xPhase' = [t \in Triggers |->
       IF t = h.started THEN "generating"
       ELSE IF t \in h.cancelled /\ phase[t] = "queued" THEN "cancelled"
       ELSE phase[t]]
  /\ xPromise' = [t \in Triggers |->
       IF t \in h.cancelled THEN Settle(promise[t], Null) ELSE promise[t]]
  /\ xStatus' = CppStatusAfterHandle(xStatus, h)
  /\ xGenerated' = IF h.started # 0 THEN Append(xGenerated, h.started)
                   ELSE xGenerated

\* An active-editor change, a save or a forced generation for document doc
\* reaches generate(): the job is offered to the JobManager.
CppGenerate(doc) ==
  /\ xTriggers < MaxTriggers
  /\ LET t == xTriggers + 1
         h == JMHandle(xRunning, Append(xTasks, t))
     IN /\ xTriggers' = t
        /\ xDoc' = [xDoc EXCEPT ![t] = doc]
        /\ CppApply(h, [xPhase EXCEPT ![t] = "queued"], xPromise)
  /\ UNCHANGED <<xOutcome, xIgnored, xShown, xLastEnd>>

\* generator.generate fulfils: clangd.restart is executed.
CompdbGenerated(t) ==
  /\ xPhase[t] = "generating"
  /\ xPhase' = [xPhase EXCEPT ![t] = "restarting"]
  /\ UNCHANGED <<xTasks, xRunning, xTriggers, xDoc, xOutcome, xPromise,
                 xStatus, xIgnored, xShown, xGenerated, xLastEnd>>

\* clangd.restart fulfils: setStatus(OK) and the job returns.
ClangdRestarted(t) ==
  /\ xPhase[t] = "restarting"
  /\ xStatus' = "OK"
  /\ xOutcome' = [xOutcome EXCEPT ![t] = Fulfilled(t)]
  /\ xPhase' = [xPhase EXCEPT ![t] = "returned"]
  /\ xLastEnd' = "ok"
  /\ UNCHANGED <<xTasks, xRunning, xTriggers, xDoc, xPromise, xIgnored,
                 xShown, xGenerated>>

\* generator.generate rejects with an ErrorDetails of the given kind: the
\* catch block returns at once for an ignored kind, and otherwise shows the
\* error and sets the status.  The job returns normally in both cases.
CompdbGenerateFails(t, kind) ==
  /\ xPhase[t] = "generating"
  /\ xStatus' = CppStatusAfterError(xStatus, xIgnored, kind)
  /\ xShown' = IF kind \in xIgnored THEN xShown ELSE xShown \cup {kind}
  /\ xOutcome' = [xOutcome EXCEPT ![t] = Fulfilled(t)]
  /\ xPhase' = [xPhase EXCEPT ![t] = "returned"]
  /\ xLastEnd' = IF kind \in xIgnored THEN "ignored" ELSE "error"
  /\ UNCHANGED <<xTasks, xRunning, xTriggers, xDoc, xPromise, xIgnored,
                 xGenerated>>

\* clangd.restart rejects with an Error, which has no `buttons`: in the
\* catch block the spread `...rawError.buttons` throws a TypeError, and the
\* job throws it.
ClangdRestartFails(t) ==
  /\ xPhase[t] = "restarting"
  /\ xOutcome' = [xOutcome EXCEPT ![t] = Rejected(t)]
  /\ xPhase' = [xPhase EXCEPT ![t] = "returned"]
  /\ xLastEnd' = "crashed"
  /\ UNCHANGED <<xTasks, xRunning, xTriggers, xDoc, xPromise, xStatus,
                 xIgnored, xShown, xGenerated>>

\* The user pushes Ignore on the error message of the given kind.
CppIgnore(kind) ==
  /\ kind \in xShown
  /\ xIgnored' = xIgnored \cup {kind}
  /\ xShown' = xShown \ {kind}
  /\ UNCHANGED <<xTasks, xRunning, xTriggers, xDoc, xPhase, xOutcome,
                 xPromise, xStatus, xGenerated, xLastEnd>>

\* Continuation of Task.run after `await this.job()`: resolve or reject.
CppTaskRunResume(t) ==
  /\ xPhase[t] = "returned"
  /\ xPromise' = [xPromise EXCEPT ![t] = Settle(@, TaskRunSettle(xOutcome[t]))]
  /\ xPhase' = [xPhase EXCEPT ![t] = "ran"]
  /\ UNCHANGED <<xTasks, xRunning, xTriggers, xDoc, xOutcome, xStatus,
                 xIgnored, xShown, xGenerated, xLastEnd>>

\* Continuation of handle() after `await task.run()`: reset running and
\* handle() a possible new task, whose job starts at once.
CppHandleResume(t) ==
  /\ xPhase[t] = "ran"
  /\ CppApply(JMHandleAgain(xTasks), [xPhase EXCEPT ![t] = "done"], xPromise)
  /\ UNCHANGED <<xTriggers, xDoc, xOutcome, xIgnored, xShown, xLastEnd>>

CppNext ==
  \/ \E doc \in Documents : CppGenerate(doc)
  \/ \E t \in Triggers : CompdbGenerated(t)
  \/ \E t \in Triggers : ClangdRestarted(t)
  \/ \E t \in Triggers : \E kind \in ErrorKinds : CompdbGenerateFails(t, kind)
  \/ \E t \in Triggers : ClangdRestartFails(t)
  \/ \E kind \in ErrorKinds : CppIgnore(kind)
  \/ \E t \in Triggers : CppTaskRunResume(t)
  \/ \E t \in Triggers : CppHandleResume(t)

(***************************************************************************)
(* CipdRepository.ensurePackage                                            *)
(***************************************************************************)

\* `if (!fs.existsSync(path.join(this.installDir, '.cipd')))`: the job
\* starts with cipd init, and otherwise with cipd install.
CipdFirstCommand(cipd) == IF cipd THEN "install" ELSE "init"

\* Effect of cipdMutex.handle() on the calls: the job it starts checks for
\* .cipd and runs its first command.
CipdStart(h, phase) ==
  /\ iQueue' = h.queue
  /\ iRunning' = h.running
  /\ iPhase' = [c \in Ensures |->
                  IF c = h.started THEN CipdFirstCommand(iCipd) ELSE phase[c]]
  /\ iLog' = IF h.started # 0
             THEN Append(iLog, [call |-> h.started,
                                command |-> CipdFirstCommand(iCipd)])
             ELSE iLog

\* ensurePackage(): runExclusive the job on cipdMutex; the job starts when
\* the Mutex is free.
EnsurePackage ==
  /\ iCalls < MaxEnsures
  /\ LET c == iCalls + 1
         h == MutexHandle(iRunning, Append(iQueue, c))
     IN /\ iCalls' = c
        /\ CipdStart(h, [iPhase EXCEPT ![c] = "queued"])
  /\ UNCHANGED <<iCipd, iOutcome, iPromise, iImmediate>>

\* exec('cipd', ['init', ...]) resolves with a result, the directory .cipd
\* created or not: the job runs cipd install.
CipdInitDone(c, created) ==
  /\ iPhase[c] = "init"
  /\ iPhase' = [iPhase EXCEPT ![c] = "install"]
  /\ iCipd' = (iCipd \/ created)
  /\ iLog' = Append(iLog, [call |-> c, command |-> "install"])
  /\ UNCHANGED <<iQueue, iRunning, iCalls, iOutcome, iPromise, iImmediate>>

\* The job returns or throws: its promise settles.
CipdSettle(c, from, outcome) ==
  /\ iPhase[c] = from
  /\ iPhase' = [iPhase EXCEPT ![c] = "settled"]
  /\ iOutcome' = [iOutcome EXCEPT ![c] = outcome]
  /\ UNCHANGED <<iQueue, iRunning, iCalls, iCipd, iPromise, iImmediate, iLog>>

\* exec('cipd', ['init', ...]) resolves with an Error: the job throws it.
CipdInitFail(c) == CipdSettle(c, "init", Rejected(c))

\* exec('cipd', ['install', ...]) resolves with a result: the job returns.
CipdInstallDone(c) == CipdSettle(c, "install", Fulfilled(c))

\* exec('cipd', ['install', ...]) resolves with an Error: the job throws it.
CipdInstallFail(c) == CipdSettle(c, "install", Rejected(c))

\* Continuation of Mutex.handle() after `await task.job()`.
CipdHandleResume(c) ==
  /\ iPhase[c] = "settled"
  /\ iImmediate' = Append(iImmediate, [task |-> c, outcome |-> iOutcome[c]])
  /\ LET h == MutexHandleAgain(MutexRunningAfterJob(iOutcome[c]), iQueue)
     IN CipdStart(h, [iPhase EXCEPT ![c] = "done"])
  /\ UNCHANGED <<iCalls, iCipd, iOutcome, iPromise>>

\* A setImmediate callback of Mutex.handle(): settle ensurePackage's promise.
CipdImmediate ==
  /\ iImmediate # <<>>
  /\ LET entry == Head(iImmediate)
         t == MutexSettledTask(entry)
     IN iPromise' = [iPromise EXCEPT ![t] = Settle(@, entry.outcome)]
  /\ iImmediate' = Tail(iImmediate)
  /\ UNCHANGED <<iQueue, iRunning, iCalls, iPhase, iCipd, iOutcome, iLog>>

CipdNext ==
  \/ EnsurePackage
  \/ \E c \in Ensures : \E created \in BOOLEAN : CipdInitDone(c, created)
  \/ \E c \in Ensures : CipdInitFail(c)
  \/ \E c \in Ensures : CipdInstallDone(c)
  \/ \E c \in Ensures : CipdInstallFail(c)
  \/ \E c \in Ensures : CipdHandleResume(c)
  \/ CipdImmediate

\* The state after construction of the objects.
Init ==
  /\ mQueue = <<>>
  /\ mRunning = FALSE
  /\ mCalls = 0
  /\ mPhase = [j \in Jobs |-> "new"]
  /\ mLocal = [j \in Jobs |-> 0]
  /\ mOutcome = [j \in Jobs |-> Pending]
  /\ mPromise = [j \in Jobs |-> Pending]
  /\ mImmediate = <<>>
  /\ counter = 0
  /\ mStartOrder = <<>>
  /\ mSeen = [j \in Jobs |-> 0]
  /\ mWaited = {}
  /\ jTasks = <<>>
  /\ jRunning = FALSE
  /\ jOffers = 0
  /\ jPhase = [j \in Offers |-> "new"]
  /\ jOutcome = [j \in Offers |-> Pending]
  /\ jPromise = [j \in Offers |-> Pending]
  /\ jRuns = [j \in Offers |-> 0]
  /\ jDuring = [j \in Offers |-> 0]
  /\ cValue = Undefined
  /\ cPromise = 0
  /\ cCalls = 0
  /\ cAttempts = 0
  /\ cAttempt = [k \in Gets |-> CachePending]
  /\ cAwait = [c \in Gets |-> 0]
  /\ cResult = [c \in Gets |-> CachePending]
  /\ cSucceeded = 0
  /\ cLate = {}
  /\ cJoined = [c \in Gets |-> 0]
  /\ cSequential = TRUE
  /\ mInner = [j \in Jobs |-> 0]
  /\ gMap = <<>>
  /\ gQueue = [m \in Generates |-> <<>>]
  /\ gRunning = [m \in Generates |-> FALSE]
  /\ gCalls = 0
  /\ gArgs = [c \in Generates |-> NoArgs]
  /\ gMutex = [c \in Generates |-> 0]
  /\ gPhase = [c \in Generates |-> "new"]
  /\ gOutcome = [c \in Generates |-> EbuildPending]
  /\ gPromise = [c \in Generates |-> EbuildPending]
  /\ gImmediate = <<>>
  /\ eOpts = NoOptions
  /\ eToken = FALSE
  /\ eProc = "none"
  /\ ePid = FALSE
  /\ eExitCode = NullStatus
  /\ eKilled = FALSE
  /\ eTreeKill = "none"
  /\ eStdout = <<>>
  /\ eStderr = <<>>
  /\ eLastChar = ""
  /\ eLog = <<>>
  /\ ePromise = ExecPending
  /\ eArrived = <<>>
  /\ eCancelAt = "none"
  /\ eChild = "none"
  /\ eTreeSignalled = {}
  /\ eChildAtCancel = FALSE
  /\ bPhase = "idle"
  /\ bDir = 1
  /\ bFs = 1
  /\ bFile = 1
  /\ bHasRemoved = FALSE
  /\ bFirstError = NoError
  /\ bDirFirst = NoError
  /\ bDirsRemoved = {}
  /\ bBlockFailed = FALSE
  /\ bCommands = <<>>
  /\ bCandidates = <<>>
  /\ bSearched = FALSE
  /\ bResult = JobPending
  /\ wCalls = 0
  /\ wOp = [c \in Timeouts |-> TimeoutPending]
  /\ wTimer = [c \in Timeouts |-> "none"]
  /\ wRace = [c \in Timeouts |-> TimeoutPending]
  /\ wMicrotasks = <<>>
  /\ wFirst = [c \in Timeouts |-> "none"]
  /\ xTasks = <<>>
  /\ xRunning = FALSE
  /\ xTriggers = 0
  /\ xDoc = [t \in Triggers |-> ""]
  /\ xPhase = [t \in Triggers |-> "new"]
  /\ xOutcome = [t \in Triggers |-> Pending]
  /\ xPromise = [t \in Triggers |-> Pending]
  /\ xStatus = "none"
  /\ xIgnored = {}
  /\ xShown = {}
  /\ xGenerated = <<>>
  /\ xLastEnd = "none"
  /\ iQueue = <<>>
  /\ iRunning = FALSE
  /\ iCalls = 0
  /\ iPhase = [c \in Ensures |-> "new"]
  /\ iCipd = FALSE
  /\ iOutcome = [c \in Ensures |-> Pending]
  /\ iPromise = [c \in Ensures |-> Pending]
  /\ iImmediate = <<>>
  /\ iLog = <<>>

SpecCache ==
  Init /\ [][CacheNext /\ UNCHANGED <<mvars, jvars, gvars, evars, bvars, wvars, xvars, ivars>>]_vars

SpecMutex ==
  Init /\ [][MutexNext /\ UNCHANGED <<jvars, cvars, gvars, evars, bvars, wvars, xvars, ivars>>]_vars

\* Every job body that is not kept waiting runs on to its return or its
\* throw, and every promise continuation and setImmediate callback is run.
MutexProgress ==
  /\ \/ \E j \in Jobs : \/ MutexJobRead(j)
                         \/ MutexJobReturn(j)
                         \/ MutexJobThrow(j)
                         \/ MutexHandleResume(j)
     \/ MutexImmediate
  /\ UNCHANGED <<jvars, cvars, gvars, evars, bvars, wvars, xvars, ivars>>

SpecMutexFair == SpecMutex /\ WF_vars(MutexProgress)

SpecTimeout ==
  Init /\ [][TimeoutNext
             /\ UNCHANGED <<mvars, jvars, cvars, gvars, evars, bvars, xvars, ivars>>]_vars

SpecJob ==
  Init /\ [][JobNext /\ UNCHANGED <<mvars, jvars, cvars, gvars, evars, wvars, xvars, ivars>>]_vars

SpecExec ==
  Init /\ [][ExecNext /\ UNCHANGED <<mvars, jvars, cvars, gvars, bvars, wvars, xvars, ivars>>]_vars

SpecEbuild ==
  Init /\ [][EbuildNext /\ UNCHANGED <<mvars, jvars, cvars, evars, bvars, wvars, xvars, ivars>>]_vars

SpecCpp ==
  Init /\ [][CppNext
             /\ UNCHANGED <<mvars, jvars, cvars, gvars, evars, bvars, wvars, ivars>>]_vars

\* Every generator.generate and clangd.restart call settles, and every
\* promise continuation is run.
CppProgress ==
  /\ \E t \in Triggers : \/ CompdbGenerated(t)
                          \/ ClangdRestarted(t)
                          \/ CppTaskRunResume(t)
                          \/ CppHandleResume(t)
  /\ UNCHANGED <<mvars, jvars, cvars, gvars, evars, bvars, wvars, ivars>>

SpecCppFair == SpecCpp /\ WF_vars(CppProgress)

SpecCipd ==
  Init /\ [][CipdNext
             /\ UNCHANGED <<mvars, jvars, cvars, gvars, evars, bvars, wvars,
                            xvars>>]_vars

SpecJM ==
  Init /\ [][JMNext /\ UNCHANGED <<mvars, cvars, gvars, evars, bvars, wvars, xvars, ivars>>]_vars

\* Every started job terminates and every promise continuation is run.
JMProgress ==
  /\ \E j \in Offers : \/ JMJobReturn(j)
                        \/ JMJobThrow(j)
                        \/ TaskRunResume(j)
                        \/ JMHandleResume(j)
  /\ UNCHANGED <<mvars, cvars, gvars, evars, bvars, wvars, xvars, ivars>>

SpecJMFair == SpecJM /\ WF_vars(JMProgress)

\* A Mutex or a JobManager at work.  The two objects share no state, so a
\* run exercises one of them.
QueuesNext ==
  \/ /\ jOffers = 0
     /\ MutexNext
     /\ UNCHANGED <<jvars, cvars, gvars, evars, bvars, wvars, xvars, ivars>>
  \/ /\ mCalls = 0
     /\ JMNext
     /\ UNCHANGED <<mvars, cvars, gvars, evars, bvars, wvars, xvars, ivars>>

SpecQueues == Init /\ [][QueuesNext]_vars

(***************************************************************************)
(* Properties of Mutex                                                     *)
(***************************************************************************)

\* Jobs whose body has started and has not yet finished.
MutexExecuting == {j \in Jobs : mPhase[j] \in {"started", "read"}}

\* Jobs whose body has started at some time.
MutexStarted == {j \in Jobs : mPhase[j] \notin {"new", "queued"}}

\* C1: at most one job body of a Mutex is executing at any time, and the
\* read-modify-write jobs lose no update: the counter equals the number of
\* jobs that completed their increment (n when all n jobs returned).
C1_MutexMutualExclusion ==
  /\ Cardinality(MutexExecuting) <= 1
  /\ counter = Cardinality({j \in Jobs : mOutcome[j].kind = "ok"})

\* All jobs were submitted while an earlier one was running, all returned,
\* and the counter is n.
C1_Witness ==
  /\ mCalls = MaxJobs
  /\ mWaited = Jobs \ {1}
  /\ \A j \in Jobs : mPhase[j] = "done" /\ mOutcome[j].kind = "ok"
  /\ counter = MaxJobs

\* C2: job bodies start in call order, and when the body of a job starts
\* every earlier job has finished and its increment of the shared counter
\* is already visible.
C2_MutexFIFO ==
  /\ \A i \in 1..Len(mStartOrder) : mStartOrder[i] = i
  /\ \A j \in MutexStarted :
        /\ mSeen[j] = Cardinality({i \in 1..(j - 1) : mOutcome[i].kind = "ok"})
        /\ j \in MutexExecuting =>
             \A i \in 1..(j - 1) : mPhase[i] \in {"settled", "done"}

\* Job 2 waited behind job 1, started after job 1's increment, and a later
\* job is still queued behind it.
C2_Witness ==
  /\ 2 \in mWaited
  /\ mPhase[2] = "started"
  /\ mSeen[2] = 1
  /\ Len(mQueue) >= 1

\* C3: the promise returned by runExclusive settles only with its own job's
\* return value or error, and a job queued behind a job that threw is
\* started once the thrower's handle() has resumed.
C3_MutexFaultIsolation ==
  /\ \A j \in Jobs : mPromise[j] # Pending =>
        /\ mPromise[j] = mOutcome[j]
        /\ mPromise[j] \in {Fulfilled(j), Rejected(j)}
  /\ \A j \in Jobs :
        (mPhase[j] = "done" /\ mOutcome[j].kind = "err" /\ j < mCalls)
          => mPhase[j + 1] # "queued"

\* Job 1 threw and its caller saw that error; job 2, queued behind it, ran
\* and its caller got job 2's value.
C3_Witness ==
  /\ mPromise[1] = Rejected(1)
  /\ 2 \in mWaited
  /\ mPromise[2] = Fulfilled(2)

\* C23: a job passed to runExclusive is never taken out of the queue except
\* to be started, its body is started at most once, and it is eventually
\* started unless a job ahead of it never terminates.
C23_MutexLiveness ==
  /\ [](/\ \A j \in Jobs : mPhase[j] = "queued" => j \in Range(mQueue)
        /\ \A a, b \in 1..Len(mStartOrder) :
              a # b => mStartOrder[a] # mStartOrder[b])
  /\ \A j \in Jobs :
        (j <= mCalls) ~> (\/ j \in MutexStarted
                          \/ \E i \in 1..(j - 1) : MutexJobBlocked(i))

\* The last job waited behind all others, every job ahead of it terminated,
\* one of them by a throw, and its body has run.
C23_Witness ==
  /\ mCalls = MaxJobs
  /\ MaxJobs \in mWaited
  /\ Len(mStartOrder) = MaxJobs
  /\ mPhase[MaxJobs] = "done"
  /\ \E i \in 1..(MaxJobs - 1) : mOutcome[i].kind = "err"

\* C24: after a job running under a Mutex has called runExclusive on that
\* Mutex and awaits the returned promise, in every later state the inner
\* job is still queued and has not started, the outer job has not got past
\* its await, and neither of the two promises is settled.
C24_MutexReentrancyDeadlock ==
  \A j \in Jobs : mInner[j] # 0 =>
    /\ mRunning
    /\ mPhase[j] = "started"
    /\ mPhase[mInner[j]] = "queued"
    /\ mInner[j] \in Range(mQueue)
    /\ mPromise[mInner[j]] = Pending
    /\ mPromise[j] = Pending

\* Job 1 awaits its inner job 2; a third job was queued behind them and
\* nothing is left to run.
C24_Witness ==
  /\ mInner[1] = 2
  /\ mQueue = <<2, 3>>
  /\ mImmediate = <<>>
  /\ MutexExecuting = {1}

\* C27: when the body of a job starts, the promise of the job before it in
\* the queue is already settled.
C27_MutexSettleThenProceed ==
  \A j \in Jobs :
    (j < mCalls /\ (j + 1) \in MutexStarted) => mPromise[j] # Pending

\* C27, as far as handle() goes: when the body of a job starts, the
\* settling of the promise of the job before it is settled or is scheduled
\* with setImmediate.
C27_MutexSettleScheduled ==
  \A j \in Jobs :
    (j < mCalls /\ (j + 1) \in MutexStarted) =>
      \/ mPromise[j] = mOutcome[j]
      \/ \E i \in 1..Len(mImmediate) :
           mImmediate[i] = [task |-> j, outcome |-> mOutcome[j]]

\* The body of job 2 runs while the promise of job 1 is pending, its
\* settling being scheduled.
C27_Witness ==
  /\ 2 \in MutexExecuting
  /\ mPromise[1] = Pending
  /\ mImmediate = <<[task |-> 1, outcome |-> mOutcome[1]]>>

(***************************************************************************)
(* Properties of JobManager                                                *)
(***************************************************************************)

\* C4: when J2..Jn (n >= 3) are offered while J1, offered to an idle
\* manager, is still running, J1's promise settles only with J1's own
\* outcome, J2..Jn-1 never run and resolve to null, and Jn does not start
\* before J1 has completed and does run once it has.
C4_JMBurstCoalescing ==
  \A n \in 3..jOffers :
    (\A j \in 2..n : jDuring[j] = 1) =>
      /\ jRuns[1] = 1
      /\ jPromise[1] \in {Pending, jOutcome[1]}
      /\ jPhase[1] \in {"ran", "done"} => jPromise[1] \in {Fulfilled(1), Rejected(1)}
      /\ \A j \in 2..(n - 1) : jPromise[j] = Null /\ jRuns[j] = 0
      /\ jRuns[n] > 0 => jPhase[1] = "done"
      /\ (jPhase[1] = "done" /\ jOffers = n) => jRuns[n] = 1

\* J2, J3 and J4 were offered while J1 ran: J1 and J4 ran and delivered
\* their results, J2 and J3 were cancelled.
C4_Witness ==
  /\ jOffers = 4
  /\ \A j \in 2..4 : jDuring[j] = 1
  /\ jPromise[1] = Fulfilled(1)
  /\ jPromise[2] = Null /\ jPromise[3] = Null
  /\ jPhase[4] = "done" /\ jPromise[4] = Fulfilled(4)

\* C5: at most one job is executing and, between offer calls, at most one
\* offered job is pending; running plus pending never exceeds 2.
C5_JMBound ==
  /\ Cardinality(JMExecuting) <= 1
  /\ Len(jTasks) <= 1
  /\ {j \in Offers : jPhase[j] = "queued"} = Range(jTasks)
  /\ Cardinality(JMExecuting) + Len(jTasks) <= 2

\* One job is executing, one is pending, and an older pending one has been
\* superseded.
C5_Witness ==
  /\ Cardinality(JMExecuting) = 1
  /\ Len(jTasks) = 1
  /\ \E j \in Offers : jPhase[j] = "cancelled"

\* C6: a job whose body has started is never resolved to null; its promise
\* is settled only by Task.run with the job's own value or error.
C6_JMNeverCancelsStarted ==
  \A j \in Offers : jRuns[j] > 0 =>
    /\ jPromise[j] # Null
    /\ jPhase[j] # "cancelled"
    /\ jPromise[j] # Pending =>
         /\ jPhase[j] \in {"ran", "done"}
         /\ jPromise[j] = jOutcome[j]

\* Two newer jobs were offered while job 1 ran (the cancel loop ran), and
\* job 1 still delivered its own result.
C6_Witness ==
  /\ jDuring[2] = 1 /\ jDuring[3] = 1
  /\ jPromise[2] = Null
  /\ jPromise[1] = Fulfilled(1)

\* C7: when a running job throws, exactly the promise returned by its own
\* offer rejects with that error; superseded offers stay resolved to null
\* and the pending job's promise stays unsettled until it runs itself.
C7_JMFailureSemantics ==
  /\ \A j \in Offers :
        (jPhase[j] \in {"ran", "done"} /\ jOutcome[j] = Rejected(j))
          => /\ jPromise[j] = Rejected(j)
             /\ \A i \in Offers \ {j} : jPromise[i] # Rejected(j)
  /\ \A j \in Offers : jPhase[j] = "cancelled" => jPromise[j] = Null
  /\ \A j \in Offers : jPhase[j] \in {"queued", "running", "returned"}
                          => jPromise[j] = Pending

\* Job 1 threw and its offer rejected, while job 2 is superseded (null) and
\* job 3 is still pending and unsettled.
C7_Witness ==
  /\ jPromise[1] = Rejected(1)
  /\ jPromise[2] = Null
  /\ jPhase[3] = "queued" /\ jPromise[3] = Pending

\* C8: the handle() continuation that follows the completion of a running
\* job starts the pending job if there is one; and, given that started jobs
\* terminate, from some point on the last job offered has run to its end.
C8_JMForwardProgress ==
  /\ [][\A j \in Offers :
          (jPhase[j] = "ran" /\ jPhase'[j] = "done" /\ jTasks # <<>>)
            => jPhase'[jTasks[Len(jTasks)]] = "running"]_vars
  /\ <>[](jOffers > 0 => (jRuns[jOffers] = 1 /\ jPhase[jOffers] = "done"))

\* The pending job 3 was started after job 1, which threw, completed.
C8_Witness ==
  /\ jOutcome[1] = Rejected(1)
  /\ jPhase[1] = "done"
  /\ jDuring[3] = 1
  /\ jPhase[3] = "running"

\* C9: an offer made while a job is queued resolves that queued job's
\* promise to null in the same step, the running job still running.
C9_JMCancelsImmediately ==
  [][jOffers' = jOffers + 1 =>
       \A j \in Offers : jPhase[j] = "queued" =>
         /\ jPromise'[j] = Null
         /\ \A r \in JMExecuting : jPhase'[r] = "running"]_vars

\* A job offered while job r was running is already null while r still runs.
C9_Witness ==
  \E j, r \in Offers :
    /\ jDuring[j] = r
    /\ jPromise[j] = Null
    /\ jPhase[r] = "running"

\* C36: every promise returned by offer is settled once and for all, in one
\* of three ways: fulfilled with its job's value after the body ran once,
\* rejected with its job's error after the body ran once, or resolved to
\* null with the body never run; no body runs twice, and when every
\* started job terminates every offer is eventually settled.
C36_JMSettlesEveryOffer ==
  /\ [](\A j \in Offers :
          /\ jRuns[j] <= 1
          /\ jPromise[j].kind = "ok" => (jPromise[j] = Fulfilled(j) /\ jRuns[j] = 1)
          /\ jPromise[j].kind = "err" => (jPromise[j] = Rejected(j) /\ jRuns[j] = 1)
          /\ jPromise[j].kind = "null" => jRuns[j] = 0
          /\ j > jOffers => jPromise[j] = Pending)
  /\ [][\A j \in Offers :
          jPromise[j] # Pending => jPromise'[j] = jPromise[j]]_vars
  /\ \A j \in Offers : (jOffers >= j) ~> (jPromise[j] # Pending)

\* Three offers were settled in the three ways: the first fulfilled, the
\* second superseded, the third rejected.
C36_Witness ==
  /\ jPromise[1] = Fulfilled(1)
  /\ jPromise[2] = Null
  /\ jRuns[2] = 0
  /\ jPromise[3] = Rejected(3)
  /\ jRuns[3] = 1

(***************************************************************************)
(* Properties of CacheOnSuccess                                            *)
(***************************************************************************)

\* C10: once an attempt has succeeded with v, every getOrThrow call made
\* afterwards fulfils with v, and the underlying job is never invoked again.
C10_CacheMemoization ==
  /\ [](\A c \in cLate : CallOutcome(c) = CacheOk(cAttempt[cSucceeded].val))
  /\ [][cSucceeded # 0 => cAttempts' = cAttempts]_vars

\* The first attempt failed, the second succeeded, and two calls were made
\* after that success.
C10_Witness ==
  /\ cAttempt[1] = CacheErr(1)
  /\ cSucceeded = 2
  /\ Cardinality(cLate) >= 2

\* The latest attempt failed, and no later attempt has been started.
CacheLastFailed == cAttempts >= 1 /\ cAttempt[cAttempts].kind = "err"

\* The latest attempt failed and the call that started it has resumed.
CacheLastFailedHandled ==
  CacheLastFailed /\ \A c \in Gets : cAwait[c] # cAttempts

\* C11 as stated: once an attempt has failed the cell holds no value and no
\* in-flight promise, and the next getOrThrow call invokes the job again.
C11_AsStated ==
  /\ [](CacheLastFailed =>
          /\ ~Truthy(cValue)
          /\ cPromise # 0 => cAttempt[cPromise] # CachePending)
  /\ [][(CacheLastFailed /\ cCalls' = cCalls + 1)
          => cAttempts' = cAttempts + 1]_vars

\* C11 (amended): once an attempt has failed and the call that started it
\* has resumed from the rejection, the cell holds neither a value nor a
\* promise and the next getOrThrow call invokes the job again; three
\* sequential calls on a job that throws once and then succeeds invoke it
\* exactly twice (fail, success, cached success).
C11_CacheRetryOnFailure ==
  /\ [](CacheLastFailedHandled => (cValue = Undefined /\ cPromise = 0))
  /\ [][(CacheLastFailedHandled /\ cCalls' = cCalls + 1)
          => (cAttempts' = cAttempts + 1 /\ cPromise' = cAttempts')]_vars
  /\ []((/\ cSequential
          /\ cCalls >= 3
          /\ cAttempt[1].kind = "err"
          /\ cAttempt[2].kind = "ok"
          /\ \A c \in 1..3 : CallOutcome(c) # CachePending)
         => /\ cAttempts = 2
            /\ CallOutcome(1) = CacheErr(1)
            /\ CallOutcome(2) = CacheOk(cAttempt[2].val)
            /\ CallOutcome(3) = CacheOk(cAttempt[2].val))

\* Three sequential calls: the first failed, the second retried and
\* succeeded, the third got the cached success; two invocations.
C11_Witness ==
  /\ cSequential
  /\ cCalls = 3
  /\ CallOutcome(1) = CacheErr(1)
  /\ CallOutcome(2) = CacheOk("ok")
  /\ CallOutcome(3) = CacheOk("ok")
  /\ cAttempts = 2

\* The executions of the underlying job that are in flight.
CacheInFlight == {k \in 1..cAttempts : cAttempt[k] = CachePending}

\* C12: a getOrThrow call made while an attempt is unresolved does not
\* invoke the job again, and every call that started or found the unresolved
\* attempt k settles with the outcome of attempt k, value or failure.
C12_CacheSharesInFlight ==
  /\ [](\A c \in 1..cCalls : cJoined[c] # 0 =>
          CallOutcome(c) \in {CachePending, cAttempt[cJoined[c]]})
  /\ [][(CacheInFlight # {} /\ cCalls' = cCalls + 1)
          => (cAttempts' = cAttempts /\ cJoined'[cCalls'] \in CacheInFlight)]_vars

\* Three calls shared the first attempt and all got its failure.
C12_Witness ==
  /\ cAttempts = 1
  /\ \A c \in 1..3 : cJoined[c] = 1 /\ CallOutcome(c) = CacheErr(1)

\* C13: at most one execution of the underlying job is in flight.
C13_CacheSingleFlight == Cardinality(CacheInFlight) <= 1

\* A retry is in flight after a failed attempt, with a second call waiting
\* on it.
C13_Witness ==
  /\ cAttempt[1] = CacheErr(1)
  /\ CacheInFlight = {2}
  /\ \E c \in 1..cCalls : cResult[c] = CacheFollows(2)

\* C37: an attempt begins only after every earlier attempt has failed and
\* its catch block has cleared the cell; the clearing removes the promise
\* of the failed attempt it handles and no cached value; and a call that
\* started or joined an attempt gets the outcome of that attempt.
C37_CacheFailureHandlingLocal ==
  /\ [](/\ \A k \in 1..cAttempts :
             k < cAttempts =>
               /\ cAttempt[k] = CacheErr(k)
               /\ \A c \in Gets : cAwait[c] # k
        /\ cPromise \in {0, cAttempts}
        /\ \A c \in 1..cCalls :
             (cJoined[c] # 0 /\ CallOutcome(c) # CachePending) =>
               CallOutcome(c) =
                 IF cAttempt[cJoined[c]].kind = "ok"
                 THEN CacheOk(cAttempt[cJoined[c]].val)
                 ELSE CacheErr(cJoined[c]))
  /\ [][(cPromise # 0 /\ cPromise' = 0) =>
          /\ cAttempt[cPromise] = CacheErr(cPromise)
          /\ cPromise = cAttempts
          /\ ~Truthy(cValue)
          /\ cAttempts' = cAttempts]_vars

\* The first attempt failed and two calls, the one that started it and one
\* that joined it, got its error; a later call started the second attempt,
\* which is in flight and held by the cell.
C37_Witness ==
  /\ cAttempts = 2
  /\ cAttempt[1] = CacheErr(1)
  /\ cAttempt[2] = CachePending
  /\ cPromise = 2
  /\ cJoined[1] = 1
  /\ cJoined[2] = 1
  /\ CallOutcome(1) = CacheErr(1)
  /\ CallOutcome(2) = CacheErr(1)
  /\ cAwait[3] = 2

\* C38: after an attempt succeeded with a falsy value the job is not
\* invoked again, the cell still holds the fulfilled promise of that
\* attempt, and every call made afterwards returns that promise and thus
\* fulfils with the falsy value.
C38_CacheMemoizesFalsy ==
  (cSucceeded # 0 /\ ~Truthy(cAttempt[cSucceeded].val)) =>
    /\ cAttempts = cSucceeded
    /\ cPromise = cSucceeded
    /\ ~Truthy(cValue)
    /\ \A c \in cLate :
         /\ cResult[c] = CacheFollows(cSucceeded)
         /\ CallOutcome(c) = CacheOk(cAttempt[cSucceeded].val)

\* The job succeeded with the empty string at its first invocation; the
\* call that awaited it has stored the value, and two later calls fulfilled
\* with the empty string.
C38_Witness ==
  /\ cSucceeded = 1
  /\ cAttempt[1] = CacheOk("")
  /\ cAwait[1] = 0
  /\ cValue = ""
  /\ {2, 3} \subseteq cLate
  /\ CallOutcome(2) = CacheOk("")
  /\ CallOutcome(3) = CacheOk("")

(***************************************************************************)
(* Properties of Ebuild.generate                                           *)
(***************************************************************************)

\* Calls whose job is between the start of removeCache() and the end of
\* artifactPath().
EbuildExecuting ==
  {c \in Generates : gPhase[c] \in {"removeCache", "runCompgen", "artifactPath"}}

\* C14: two generate calls with the same board, package and source root,
\* each made on its own Ebuild object, share one Mutex and their jobs never
\* overlap: while the job of one runs, the other's is queued or finished.
C14_EbuildSameKeyExclusion ==
  \A c1, c2 \in 1..gCalls :
    (c1 # c2 /\ gArgs[c1] = gArgs[c2]) =>
      /\ gMutex[c1] = gMutex[c2]
      /\ ~(c1 \in EbuildExecuting /\ c2 \in EbuildExecuting)

\* The second of two calls with the same arguments waited, and runs now
\* that the first has finished.
C14_Witness ==
  /\ gCalls >= 2
  /\ gArgs[1] = gArgs[2]
  /\ gPhase[1] = "done"
  /\ gPhase[2] = "runCompgen"

\* C15: two generate calls that differ in the board, the package or the
\* source root use different Mutex instances, and a call is kept waiting
\* only by a call with the same three components.
C15_EbuildKeyIndependence ==
  /\ \A c1, c2 \in 1..gCalls :
        gArgs[c1] # gArgs[c2] => gMutex[c1] # gMutex[c2]
  /\ \A c \in 1..gCalls : gPhase[c] = "queued" =>
        \E b \in 1..gCalls :
          /\ b # c
          /\ gArgs[b] = gArgs[c]
          /\ gPhase[b] \in {"removeCache", "runCompgen", "artifactPath",
                            "settled"}

\* Two calls that differ only in the source root run at the same time.
C15_Witness ==
  /\ gCalls >= 2
  /\ gArgs[1].board = gArgs[2].board
  /\ gArgs[1].pkg = gArgs[2].pkg
  /\ gArgs[1].root # gArgs[2].root
  /\ gPhase[1] = "runCompgen"
  /\ gPhase[2] = "runCompgen"

\* C33: globalMutexMap only grows, an entry never being removed or
\* replaced; it holds one Mutex per key, and every generate call got the
\* Mutex stored under its own key, also when calls for the same new key
\* follow each other before the first has finished.
C33_EbuildMutexRegistry ==
  /\ [](/\ \A i, k \in 1..Len(gMap) : gMap[i] = gMap[k] => i = k
        /\ \A c \in 1..gCalls :
             /\ gMutex[c] \in 1..Len(gMap)
             /\ gMap[gMutex[c]] = EbuildKey(gArgs[c]))
  /\ [][/\ Len(gMap') >= Len(gMap)
        /\ SubSeq(gMap', 1, Len(gMap)) = gMap]_vars

\* A second call for the same key was made while the job of the first was
\* still running; the map holds one entry and both calls use its Mutex.
C33_Witness ==
  /\ gCalls >= 2
  /\ gArgs[1] = gArgs[2]
  /\ gPhase[1] = "removeCache"
  /\ gPhase[2] = "queued"
  /\ Len(gMap) = 1
  /\ gMutex[1] = 1
  /\ gMutex[2] = 1

(***************************************************************************)
(* Properties of exec                                                      *)
(***************************************************************************)

\* The chunks of one stream, in arrival order, as one string.
RECURSIVE Flatten(_, _)
Flatten(src, arrived) ==
  IF arrived = <<>> THEN <<>>
  ELSE (IF Head(arrived).src = src THEN Head(arrived).text ELSE <<>>)
         \o Flatten(src, Tail(arrived))

\* cancel() ran before the 'close' event.
ExecCancelledEarly == eCancelAt \notin {"none", "closed"}

\* C16: when the process was spawned and closes without a cancellation
\* before, exec yields an AbnormalExitError with the exit status and the
\* captured stdout and stderr if the status is not zero and
\* ignoreNonZeroExit is not set, and otherwise the result
\* {exitStatus, stdout, stderr} with the status that occurred.
C16_ExecOutcomeOnClose ==
  (eProc = "closed" /\ ePid /\ ~ExecCancelledEarly) =>
    ePromise = IF ~eOpts.ignoreNonZeroExit /\ eExitCode # 0
               THEN AbnormalExitError(eExitCode, eStdout, eStderr)
               ELSE ExecResult(eExitCode, eStdout, eStderr)

\* A process that wrote to both streams closed with status 1.
C16_Witness ==
  /\ eProc = "closed"
  /\ ~eOpts.ignoreNonZeroExit
  /\ ePromise = AbnormalExitError(1, <<"a">>, <<"b", "\n">>)

\* C17: when the process could not be spawned and no cancellation came
\* before the 'error' event, exec yields a ProcessError, and the 'close'
\* event that follows does not change it.
C17_ExecSpawnFailure ==
  (eProc \in {"errored", "closed"} /\ ~ePid
   /\ eCancelAt \notin {"pre", "failed"}) => ePromise = ProcessError

\* The 'close' event has followed the 'error' event.
C17_Witness ==
  /\ eProc = "closed"
  /\ ~ePid
  /\ ~eOpts.ignoreNonZeroExit
  /\ ePromise = ProcessError

\* C18: when the token was cancelled before exec was called or while the
\* process was running, what exec yields is a CancelledError.
C18_ExecCancellation ==
  (eCancelAt \in {"pre", "running"} /\ ePromise.kind # "pending")
    => ePromise.kind = "cancelled"

\* C18, where no tree kill is started (treeKillWhenCancelling is not set
\* or the process has no pid): exec yields a CancelledError.
C18_ExecCancellationDirectKill ==
  (eCancelAt \in {"pre", "running"} /\ (~eOpts.treeKill \/ ~ePid))
    => ePromise = CancelledError

\* The process was killed directly while running; its 'close' event, with
\* the null status of a signal, came after the CancelledError.
C18_Witness ==
  /\ eCancelAt = "running"
  /\ ~eOpts.treeKill
  /\ ~eOpts.ignoreNonZeroExit
  /\ eKilled
  /\ eProc = "closed"
  /\ eExitCode = NullStatus
  /\ ePromise = CancelledError

\* C19: the promise of exec holds one of the four outcomes or is pending,
\* and once it holds an outcome no later event changes it.
C19_ExecDecidedOnce ==
  /\ [](ePromise.kind \in {"pending", "result", "abnormal", "process",
                           "cancelled"})
  /\ [][ePromise.kind # "pending" => ePromise' = ePromise]_vars

\* The 'close' event came after the cancellation had decided the outcome.
C19_Witness ==
  /\ eProc = "closed"
  /\ eCancelAt = "running"
  /\ eExitCode = 0
  /\ ePromise = CancelledError

\* The entries of the log that are data chunks.
ExecLoggedData == SelectSeq(eLog, LAMBDA e : e.src \in {"stdout", "stderr"})

\* C20: the captured and the returned stdout and stderr are the chunks of
\* that stream in arrival order, whatever the logging options; with a
\* logger the first entry of the log is the command line, and the chunks
\* logged are, in arrival order, every stderr chunk, and the stdout chunks
\* exactly when logStdout is set.
C20_ExecStreams ==
  /\ eStdout = Flatten("stdout", eArrived)
  /\ eStderr = Flatten("stderr", eArrived)
  /\ ePromise.kind \in {"result", "abnormal"} =>
       /\ ePromise.stdout = Flatten("stdout", eArrived)
       /\ ePromise.stderr = Flatten("stderr", eArrived)
  /\ (eProc # "none" /\ eOpts.logger) =>
       /\ eLog # <<>>
       /\ eLog[1] = [src |-> "cmd", text |-> CommandLine]
       /\ ExecLoggedData =
            SelectSeq(eArrived,
                      LAMBDA e : e.src = "stderr" \/ eOpts.logStdout)

\* A stdout and a stderr chunk arrived, only
\* the stderr chunk was logged, and the result holds both.
C20_Witness ==
  /\ eProc = "closed"
  /\ eOpts.logger
  /\ ~eOpts.logStdout
  /\ Len(eArrived) = 2
  /\ ePromise = ExecResult(0, <<"a">>, <<"b", "\n">>)


\* The text passed to the logger so far ends with a newline.
ExecLogEndsWithNewline(log) ==
  /\ log # <<>>
  /\ log[Len(log)].text[Len(log[Len(log)].text)] = "\n"

\* The step resolves the promise of an exec call that has a logger.
ExecResolvesLogged ==
  ePromise.kind = "pending" /\ ePromise'.kind # "pending" /\ eOpts'.logger

\* C21: with a logger, at the moment the promise of exec is resolved - with
\* a result, an AbnormalExitError, a ProcessError or a CancelledError - the
\* text appended to the logger so far ends with a newline.
C21_ExecNewlineGuarantee ==
  [][ExecResolvesLogged => ExecLogEndsWithNewline(eLog')]_vars

\* C21, for the outcomes decided by the 'close' and 'error' handlers: the
\* log ends with a newline when the promise is resolved.
C21_ExecNewlineOnCloseAndError ==
  [][(ExecResolvesLogged /\ ePromise'.kind \in {"result", "abnormal", "process"})
       => ExecLogEndsWithNewline(eLog')]_vars

\* The last chunk logged did not end with a newline and the 'close' handler,
\* which decided the outcome, appended one.
C21_Witness ==
  /\ eProc = "closed"
  /\ eOpts.logger
  /\ ePromise.kind = "result"
  /\ eLastChar = "a"
  /\ eLog[Len(eLog)].src = "flush"


\* The step resolves the promise with the CancelledError of a cancellation
\* that came, with treeKillWhenCancelling, while the command and a process
\* it spawned were running.
ExecTreeCancelResolves ==
  /\ ePromise.kind = "pending"
  /\ ePromise' = CancelledError
  /\ eOpts.treeKill
  /\ eCancelAt' = "running"
  /\ eChildAtCancel'

ExecExitCodeAtCancel ==
  IF eCancelAt \in {"pre", "running", "failed"} THEN NullStatus ELSE eExitCode

\* C35 as stated: treeKill is called only if treeKillWhenCancelling is set,
\* the process has a pid and had not exited when cancel() ran; otherwise
\* the command is killed directly; and after a treeKill error the command
\* alone has been killed and exec yields CancelledError.
C35_AsStated ==
  /\ eTreeKill # "none" =>
       (eOpts.treeKill /\ ePid /\ eCancelAt \in {"pre", "running"})
  /\ (eCancelAt # "none" /\ eTreeKill = "none") => eKilled
  /\ eTreeKill = "failed" =>
       (eKilled /\ eTreeSignalled = {} /\ ePromise = CancelledError)

\* C35, what the code does: cancel() calls treeKill exactly if
\* treeKillWhenCancelling is set, the process has a pid and its exitCode is
\* null, which is also the case after it was ended by a signal; otherwise
\* it kills the command and resolves at once.  After a treeKill error the
\* command alone has been killed.  Once the callback has run the promise
\* is resolved, with CancelledError unless 'close' had resolved it before.
C35_ExecKillPath ==
  /\ eTreeKill # "none" <=>
       /\ eCancelAt # "none"
       /\ eOpts.treeKill
       /\ ePid
       /\ ExecExitCodeAtCancel = NullStatus
  /\ (eCancelAt # "none" /\ eTreeKill = "none") =>
       (eKilled /\ ePromise.kind # "pending")
  /\ eTreeKill = "failed" => (eKilled /\ eTreeSignalled = {})
  /\ eTreeKill \in {"done", "failed"} =>
       /\ ePromise.kind # "pending"
       /\ eProc # "closed" => ePromise = CancelledError

\* The process was ended by a signal before the token was cancelled;
\* cancel() called treeKill, which reported an error, and the command was
\* killed as the fallback; 'close' had resolved the promise before.
C35_Witness ==
  /\ eCancelAt = "exited"
  /\ eExitCode = NullStatus
  /\ eTreeKill = "failed"
  /\ eKilled
  /\ eProc = "closed"
  /\ ePromise.kind = "abnormal"

(***************************************************************************)
(* Properties of the job of Ebuild.generate                                *)
(***************************************************************************)

\* C25: a job that fails in removeCache() throws a CompdbError of kind
\* RemoveCache and has run no command; a job whose ebuild lookup or build
\* command gives an Error throws a CompdbError of kind RunEbuild and has
\* not looked for artifacts; a job whose build succeeded and that found no
\* artifact returns undefined.
C25_EbuildFailureTaxonomy ==
  /\ bResult.kind = "RemoveCache" <=> (bPhase = "thrown" /\ bCommands = <<>>)
  /\ bResult.kind = "RemoveCache" => ~bSearched
  /\ bResult.kind = "RunEbuild" <=> (bPhase = "thrown" /\ bCommands # <<>>)
  /\ bResult.kind = "RunEbuild" => ~bSearched
  /\ bPhase = "returned" =>
       /\ bCommands = <<"equery", "ebuild">>
       /\ bSearched
       /\ bResult = IF bCandidates = <<>> THEN JobUndefined
                    ELSE JobArtifact(ArrayPop(ArraySort(bCandidates)))
  /\ bPhase \notin {"thrown", "returned"} => bResult = JobPending

\* The build succeeded, no artifact was found and the job returned
\* undefined.
C25_Witness ==
  /\ bPhase = "returned"
  /\ bCommands = <<"equery", "ebuild">>
  /\ bCandidates = <<>>
  /\ bResult = JobUndefined

\* The candidates artifactPath() collected, as a set.
JobCandidates == {bCandidates[i] : i \in 1..Len(bCandidates)}

\* The candidates at the location the job returned.
JobReturnedCandidates ==
  {c \in JobCandidates : bResult = JobArtifact(c)}

\* C28 as stated: when the job returns an artifact, it is a candidate
\* whose modification time is the greatest of all candidates, for every
\* assignment of modification times to the locations.
C28_ArtifactMostRecent ==
  (bPhase = "returned" /\ bCandidates # <<>>) =>
    \E c \in JobReturnedCandidates :
      \A o \in JobCandidates : o.mtime <= c.mtime

\* C28, what the code does: when the job returns an artifact, it is a
\* candidate whose text, the text of its modification date first, is not
\* less than the text of any other candidate; undefined is returned exactly
\* when there is no candidate.
C28_ArtifactGreatestText ==
  bPhase = "returned" =>
    /\ bCandidates = <<>> <=> bResult = JobUndefined
    /\ bCandidates # <<>> =>
         \E c \in JobReturnedCandidates :
           \A o \in JobCandidates :
             ~StringLess(ElementToString(c), ElementToString(o))

\* The artifact is in two locations and the job returned the older copy.
C28_Witness ==
  /\ bPhase = "returned"
  /\ Len(bCandidates) >= 2
  /\ \E c \in JobReturnedCandidates :
       \E o \in JobCandidates : c.mtime < o.mtime

\* C29 as stated: the error removeCache raises is the first removal error
\* met for the directory, the roots taken in the order chroot, out.
C29_RemoveCacheFirstError ==
  bResult.kind = "RemoveCache" => bResult = JobRemoveCacheError(bDirFirst)

\* C29, what the code does: the error removeCache raises is the one caught
\* last for the directory, that of the root out, while the first error
\* caught for the directory was that of the root chroot.
C29_RemoveCacheLastError ==
  bResult.kind = "RemoveCache" =>
    /\ bResult = JobRemoveCacheError(bFirstError)
    /\ bResult.dir = bDir
    /\ bResult.fs = Len(FsRoots)
    /\ bDirFirst.dir = bDir
    /\ bDirFirst.fs = 1

\* removeCache raised the error of the root out for the second directory,
\* after the removal of the second file had failed in the root chroot.
C29_Witness ==
  /\ bPhase = "thrown"
  /\ bResult = JobRemoveCacheError([dir |-> 2, fs |-> 2, file |-> 1])
  /\ bDirFirst = [dir |-> 2, fs |-> 1, file |-> 2]

\* C30 as stated: removeCache raises an error only if no removal attempt,
\* over all directories and both roots, ran to its end.
C30_AsStated ==
  bResult.kind = "RemoveCache" => bDirsRemoved = {}

\* C30 amended: removeCache raises an error exactly when it comes to a
\* build directory for which the removals succeeded in neither root, even
\* if they succeeded for the directories before it; it returns normally
\* exactly when for every build directory the removals succeeded in some
\* root, failures in the other root being ignored.
C30_RemoveCachePerDirectory ==
  /\ bResult.kind = "RemoveCache" =>
       /\ ~bHasRemoved
       /\ bResult.dir \notin bDirsRemoved
       /\ bDirsRemoved = 1..(bResult.dir - 1)
  /\ bCommands # <<>> => bDirsRemoved = BuildDirs
  /\ bPhase = "removeCache" => bDirsRemoved \in {1..(bDir - 1), 1..bDir}

\* removeCache raised an error for the second directory although the
\* removals for the first directory had succeeded.
C30_Witness ==
  /\ bPhase = "thrown"
  /\ bResult.kind = "RemoveCache"
  /\ bResult.dir = 2
  /\ bDirsRemoved = {1}

\* removeCache returned although a removal had failed.
C30_WitnessTolerated ==
  /\ bCommands # <<>>
  /\ bBlockFailed
  /\ bDirsRemoved = BuildDirs


(***************************************************************************)
(* Properties of withTimeout                                               *)
(***************************************************************************)

\* C26: once the promise returned by withTimeout is settled, it holds the
\* operation's value if the operation fulfilled before the timer fired and
\* undefined if the timer fired first; it never changes afterwards, also
\* when the operation, which goes on running, completes after the timeout.
C26_WithTimeout ==
  /\ [](\A c \in Timeouts : wRace[c] # TimeoutPending =>
          /\ (wFirst[c] = "operation" /\ wOp[c].kind = "ok")
                => wRace[c] = wOp[c]
          /\ wFirst[c] = "timer" => wRace[c] = TimeoutUndefined)
  /\ [][\A c \in Timeouts :
          wRace[c] # TimeoutPending => wRace'[c] = wRace[c]]_vars

\* The timer of the first call fired first and undefined was delivered;
\* the operation completed later and its reaction has run.
C26_Witness ==
  /\ wFirst[1] = "timer"
  /\ wRace[1] = TimeoutUndefined
  /\ wOp[1] = TimeoutValue("a")
  /\ wMicrotasks = <<>>


(***************************************************************************)
(* Properties of CppCodeCompletion                                         *)
(***************************************************************************)

\* The triggers whose job reached generator.generate.
CppGenerated == Range(xGenerated)

\* The triggers whose job body is executing.
CppExecuting == {t \in Triggers : xPhase[t] \in {"generating", "restarting"}}

\* C31 as stated: a trigger is superseded only by a later trigger for the
\* same document; the latest trigger for a document is never cancelled by a
\* trigger for another document.
C31_AsStated ==
  \A t \in 1..xTriggers :
    xPhase[t] = "cancelled" =>
      \E u \in (t + 1)..xTriggers : xDoc[u] = xDoc[t]

\* C31 amended: the JobManager is shared by all documents.  A trigger is
\* superseded only when a later trigger, for any document, has arrived, its
\* body then never runs and its promise resolves to null; the latest trigger
\* of all eventually reaches generator.generate unless a later one arrives.
C31_CppCoalescing ==
  /\ [](\A t \in 1..xTriggers :
          xPhase[t] = "cancelled" =>
            /\ t < xTriggers
            /\ t \notin CppGenerated
            /\ xPromise[t] = Null)
  /\ \A t \in Triggers :
       (xTriggers = t) ~> (t \in CppGenerated \/ xTriggers > t)

\* The latest trigger for a.cc was superseded by a trigger for b.cc, which
\* reached generator.generate.
C31_Witness ==
  /\ xTriggers = 3
  /\ xDoc = <<"a.cc", "a.cc", "b.cc">>
  /\ xPhase[2] = "cancelled"
  /\ xGenerated = <<1, 3>>

\* C32 as stated: when no generation job is running the status is not
\* RUNNING.
C32_AsStated == CppExecuting = {} => xStatus # "RUNNING"

\* C32, what the code does: while a job body runs the status is RUNNING;
\* afterwards it is OK if the last job succeeded and ERROR if it failed
\* with an error kind that is not ignored, but it stays RUNNING if the job
\* failed with an ignored error kind or if the catch block itself threw.
C32_CppStatus ==
  /\ CppExecuting # {} => xStatus = "RUNNING"
  /\ CppExecuting = {} =>
       xStatus = CASE xLastEnd = "none" -> "none"
                   [] xLastEnd = "ok" -> "OK"
                   [] xLastEnd = "error" -> "ERROR"
                   [] xLastEnd \in {"ignored", "crashed"} -> "RUNNING"

\* A job failed with an error kind the user had chosen to ignore, no job
\* is running, and the status is RUNNING.
C32_Witness ==
  /\ CppExecuting = {}
  /\ xLastEnd = "ignored"
  /\ xStatus = "RUNNING"
  /\ \E t \in Triggers : xPromise[t] = Fulfilled(t)


(***************************************************************************)
(* Properties of CipdRepository                                            *)
(***************************************************************************)

\* The calls whose cipd command is running.
CipdExecuting == {c \in Ensures : iPhase[c] \in {"init", "install"}}

\* C34: at most one cipd command runs at a time; the commands of one call
\* are started one after the other with no command of another call between
\* them, cipd init first only if .cipd was absent; a call is rejected only
\* with the error of its own command, and a queued call is never left
\* behind: some call is running or about to hand over.
C34_CipdSerialized ==
  /\ Cardinality(CipdExecuting) <= 1
  /\ \A i, k \in 1..Len(iLog) :
       (i < k /\ iLog[i].call = iLog[k].call) =>
         /\ k = i + 1
         /\ iLog[i].command = "init"
         /\ iLog[k].command = "install"
  /\ \A c \in Ensures :
       /\ iPromise[c].kind = "err" => iPromise[c] = Rejected(c)
       /\ iPromise[c].kind = "ok" => iPromise[c] = Fulfilled(c)
       /\ iPhase[c] = "queued" =>
            \E b \in Ensures : iPhase[b] \in {"init", "install", "settled"}

\* The first call failed in cipd init and was rejected; the second call,
\* made meanwhile, runs its commands afterwards.
C34_Witness ==
  /\ iPromise[1] = Rejected(1)
  /\ iLog = <<[call |-> 1, command |-> "init"],
              [call |-> 2, command |-> "init"],
              [call |-> 2, command |-> "install"]>>
  /\ iPhase[2] = "install"
  /\ iPhase[3] = "queued"


(***************************************************************************)
(* Properties of the queues of Mutex and JobManager                        *)
(***************************************************************************)

\* The Mutex jobs whose body runs or whose handle() continuation is due.
MutexActive == {j \in Jobs : mPhase[j] \in {"started", "read", "settled"}}

\* The JobManager jobs whose body runs or whose Task.run or handle()
\* continuation is due.
JMActive == {j \in Offers : jPhase[j] \in {"running", "returned", "ran"}}

\* C39: in Mutex and in JobManager the running flag is set exactly while a
\* job body runs or a handle() continuation is pending, and an entry waits
\* in the queue only while the flag is set; when the continuation of a job
\* runs, whether the job returned or threw, the next entry is started (the
\* first of the Mutex queue, the last of the JobManager's) or, if there is
\* none, the flag is reset.
C39_NoStuckQueue ==
  /\ [](/\ mRunning <=> MutexActive # {}
        /\ mQueue # <<>> => mRunning
        /\ jRunning <=> JMActive # {}
        /\ jTasks # <<>> => jRunning)
  /\ [][/\ \A j \in Jobs :
             (mPhase[j] = "settled" /\ mPhase'[j] = "done") =>
               IF mQueue = <<>> THEN ~mRunning'
               ELSE /\ mRunning'
                    /\ mPhase'[Head(mQueue)] = "started"
                    /\ mQueue' = Tail(mQueue)
        /\ \A j \in Offers :
             (jPhase[j] = "ran" /\ jPhase'[j] = "done") =>
               IF jTasks = <<>> THEN ~jRunning'
               ELSE /\ jRunning'
                    /\ jPhase'[jTasks[Len(jTasks)]] = "running"
                    /\ jTasks' = <<>>]_vars

\* The first job of the Mutex threw, its continuation has run, and the
\* second job, which had waited in the queue, was started.
C39_Witness ==
  /\ mOutcome[1] = Rejected(1)
  /\ mPhase[1] = "done"
  /\ 2 \in mWaited
  /\ mPhase[2] = "started"
  /\ mRunning

\* The first job of the JobManager threw, its continuation has run, and
\* the second job, which had waited in the queue, was started.
C39_WitnessJobManager ==
  /\ jOutcome[1] = Rejected(1)
  /\ jPhase[1] = "done"
  /\ jDuring[2] = 1
  /\ jPhase[2] = "running"
  /\ jRunning

====
